---- MODULE Spec2Model ----
(***************************************************************************)
(* Model of Obfuscation_Pipeline/CFG/last.py: the per-file dynamic-call    *)
(* obfuscation tool (function discovery, partitioning, call-indirection    *)
(* rewriter, per-file dispatch runtime).                                   *)
(*                                                                         *)
(* Source text is modelled at the level the tool itself reads it: a file   *)
(* is a sequence of lines, a line is a record of the tokens the tool's     *)
(* regular expressions look at (leading attributes, modifiers, the `func`  *)
(* or type keyword, the name, the tokens after the opening parenthesis,    *)
(* and the braces on the line).  Strings built by the tool (route keys,    *)
(* parameter lists, return types) are token sequences.                     *)
(***************************************************************************)
EXTENDS Integers, Sequences, FiniteSets, TLC

(***************************************************************************)
(* Bounds of the model.                                                    *)
(***************************************************************************)
MaxMembers == 2
\* threads of the built program and the calls they start
MaxThreads == 2
MaxCalls == 2
\* characters of a text handed to the comment stripper
MaxChars == 6
MaxRuns == 2

(***************************************************************************)
(* Program constants.                                                      *)
(***************************************************************************)
OBF_BEGIN == ""
OBF_END == ""
DefaultMaxParams == 10
LookbackLines == 12

\* ---------------------------------------------------------------- sequences

RECURSIVE SeqSum(_)
SeqSum(s) == IF s = <<>> THEN 0 ELSE Head(s) + SeqSum(Tail(s))

RECURSIVE Flatten(_)
Flatten(ss) == IF ss = <<>> THEN <<>> ELSE Head(ss) \o Flatten(Tail(ss))

Contains(s, t) == \E i \in 1..Len(s) : s[i] = t

\* index of the first occurrence of token t in s, 0 when absent (str.find)
Find(s, t) ==
    IF Contains(s, t)
    THEN CHOOSE i \in 1..Len(s) : s[i] = t /\ \A j \in 1..(i - 1) : s[j] # t
    ELSE 0

\* s[:i-1] and s[i+1:] around position i
Before(s, i) == SubSeq(s, 1, i - 1)
After(s, i) == SubSeq(s, i + 1, Len(s))

\* str.split(sep): every part, empty parts included
RECURSIVE Split(_, _)
Split(s, sep) ==
    LET i == Find(s, sep)
    IN  IF i = 0 THEN <<s>> ELSE <<Before(s, i)>> \o Split(After(s, i), sep)

\* sep.join(parts)
RECURSIVE Join(_, _)
Join(parts, sep) ==
    IF parts = <<>> THEN <<>>
    ELSE IF Len(parts) = 1 THEN parts[1]
    ELSE parts[1] \o <<sep>> \o Join(Tail(parts), sep)

RECURSIVE SelectIdx(_, _, _)
\* the indices i >= from of s whose element is in the set keep, in order
SelectIdx(s, keep, from) ==
    IF from > Len(s) THEN <<>>
    ELSE (IF s[from] \in keep THEN <<from>> ELSE <<>>) \o SelectIdx(s, keep, from + 1)

\* ---------------------------------------------------------------- lines

NoLine ==
    [k |-> "blank", attrs |-> <<>>, mods |-> <<>>, tkind |-> "", name |-> "",
     generics |-> <<>>, conforms |-> <<>>, where |-> FALSE, sig |-> <<>>,
     opens |-> 0, closes |-> 0, key |-> <<>>, args |-> <<>>]

BlankLine == NoLine
OpenLine == [NoLine EXCEPT !.k = "open", !.opens = 1]
CloseLine == [NoLine EXCEPT !.k = "close", !.closes = 1]
ImportLine == [NoLine EXCEPT !.k = "import", !.name = "StringSecurity"]
AttrLine(tok) == [NoLine EXCEPT !.k = "attr", !.attrs = <<tok>>]
\* a stored property or a statement: modifiers, a name, braces balanced on the line
VarLine(mods, name) == [NoLine EXCEPT !.k = "var", !.mods = mods, !.name = name]
StmtLine(n) == [NoLine EXCEPT !.k = "stmt", !.opens = n, !.closes = n]
\* a line that holds nothing but a line comment, with the braces in its text
CommentLine(opens, closes) ==
    [NoLine EXCEPT !.k = "comment", !.opens = opens, !.closes = closes]
\* the interpreter line `#!...` a script may begin with
ShebangLine == [NoLine EXCEPT !.k = "shebang"]
\* <attrs> <mods> <tkind> <name><generics> : <conforms> [where ...] {
TypeLine(attrs, mods, tkind, name, generics, conforms, where) ==
    [NoLine EXCEPT !.k = "type", !.attrs = attrs, !.mods = mods, !.tkind = tkind,
                   !.name = name, !.generics = generics, !.conforms = conforms,
                   !.where = where, !.opens = 1]
\* <attrs> <mods> func <name>( <sig>   followed by `opens` '{' and `closes` '}';
\* sig holds every token after the opening parenthesis up to the body.
FuncLine(attrs, mods, name, sig, opens, closes) ==
    [NoLine EXCEPT !.k = "func", !.attrs = attrs, !.mods = mods, !.name = name,
                   !.sig = sig, !.opens = opens, !.closes = closes]
\* the same with a generic clause between the name and the parenthesis
GenericFuncLine(mods, name, generics, sig, opens, closes) ==
    [FuncLine(<<>>, mods, name, sig, opens, closes) EXCEPT !.generics = generics]
\* a route registration inside install(): key, wrapper name and function reference
RegLine(key, wrapper_name, fnref) ==
    [NoLine EXCEPT !.k = "reg", !.key = key, !.name = wrapper_name, !.args = fnref]
\* the forwarding statement of a wrapper: OBFF<id>.<accessor>(key, args...)
CallLine(file_id, accessor, key, args) ==
    [NoLine EXCEPT !.k = "call", !.tkind = file_id, !.name = accessor, !.key = key,
                   !.args = args]

\* ---------------------------------------------------------------- tokens

\* identifiers of the modelled sources that start with an upper-case letter
Capitalized ==
    {"Int", "String", "Bool", "Void", "Any", "Inner", "T", "A", "B", "G", "C",
     "E", "P", "Q", "Self", "Configuration"}
\* attribute names that end in "Actor" (a.endswith('Actor'))
EndsWithActor(a) == a \in {"MainActor", "GlobalActor"}
\* attribute tokens that may stand inside a parameter list
SigAttrName(tok) ==
    IF tok = "@escaping" THEN <<"escaping">>
    ELSE IF tok = "@Sendable" THEN <<"Sendable">>
    ELSE IF tok = "@MainActor" THEN <<"MainActor">>
    ELSE <<>>
RECURSIVE SigAttrsIn(_, _, _)
SigAttrsIn(sig, lo, hi) ==
    IF lo > hi THEN <<>>
    ELSE IF lo = hi THEN SigAttrName(sig[lo])
    ELSE SigAttrsIn(sig, lo, (lo + hi) \div 2) \o SigAttrsIn(sig, (lo + hi) \div 2 + 1, hi)
SigAttrs(sig) == SigAttrsIn(sig, 1, Len(sig))

AccessWords == {"public", "internal", "fileprivate", "private", "open"}

\* ---------------------------------------------------------------- regexes

\* TYPE_DECL_RE.match(line)
TYPE_DECL_RE(line) == line.k = "type"

\* (?:(?:async|re?throws)\s*)*  -- `re?throws` spells rthrows / rethrows, not throws
RECURSIVE SkipEffects(_)
SkipEffects(rest) ==
    IF rest # <<>> /\ Head(rest) \in {"async", "rethrows", "rthrows"}
    THEN SkipEffects(Tail(rest))
    ELSE rest

\* FUNC_DECL_RE.match(line): the groups mods, name, params ([^)]*) and ret
FUNC_DECL_RE(line) ==
    LET close == Find(line.sig, ")")
        rest  == SkipEffects(After(line.sig, close))
    IN  [ok     |-> line.k = "func" /\ close # 0,
         mods   |-> line.mods,
         name   |-> line.name,
         params |-> Before(line.sig, close),
         ret    |-> IF rest # <<>> /\ Head(rest) = "->" THEN Tail(rest) ELSE <<>>]

\* ---------------------------------------------------------------- parameters

\* _def_default_re.sub("", params): "=" and what follows it up to the next "," or ")"
RECURSIVE strip_param_defaults(_)
strip_param_defaults(ps) ==
    LET i == Find(ps, "=")
    IN  IF i = 0 \/ i = Len(ps) \/ ps[i + 1] \in {",", ")"} THEN
            (IF i = 0 THEN ps ELSE SubSeq(ps, 1, i) \o strip_param_defaults(After(ps, i)))
        ELSE
            LET rest == After(ps, i)
                c1 == Find(rest, ",")
                c2 == Find(rest, ")")
                stop == IF c1 = 0 THEN (IF c2 = 0 THEN Len(rest) + 1 ELSE c2)
                        ELSE IF c2 = 0 THEN c1 ELSE (IF c1 < c2 THEN c1 ELSE c2)
            IN  Before(ps, i) \o strip_param_defaults(SubSeq(rest, stop, Len(rest)))

Max0(n) == IF n < 0 THEN 0 ELSE n

\* _split_params_top: split at commas outside (), [], <>
RECURSIVE SplitTop(_, _, _, _, _, _)
SplitTop(ps, i, buf, dp, db, da) ==
    IF i > Len(ps) THEN (IF buf # <<>> THEN <<buf>> ELSE <<>>)
    ELSE
        LET ch == ps[i]
            p2 == IF ch = "(" THEN dp + 1 ELSE IF ch = ")" THEN Max0(dp - 1) ELSE dp
            b2 == IF ch = "[" THEN db + 1 ELSE IF ch = "]" THEN Max0(db - 1) ELSE db
            a2 == IF ch = "<" THEN da + 1 ELSE IF ch = ">" THEN Max0(da - 1) ELSE da
        IN  IF ch = "," /\ p2 = 0 /\ b2 = 0 /\ a2 = 0
            THEN <<buf>> \o SplitTop(ps, i + 1, <<>>, p2, b2, a2)
            ELSE SplitTop(ps, i + 1, Append(buf, ch), p2, b2, a2)
split_params_top(ps) == SplitTop(ps, 1, <<>>, 0, 0, 0)

\* _has_param_default
has_param_default(ps) ==
    \E i \in 1..Len(split_params_top(ps)) : Contains(split_params_top(ps)[i], "=")

NonUnderscore(s) == SelectSeq(s, LAMBDA t : t # "_")

\* _param_external_labels_list
RECURSIVE LabelsOf(_)
LabelsOf(segs) ==
    IF segs = <<>> THEN <<>>
    ELSE
        LET seg  == Head(segs)
            c    == Find(seg, ":")
            left == IF c = 0 THEN seg ELSE Before(seg, c)
            toks == NonUnderscore(left)
        IN  (IF seg = <<>> THEN <<>>
             ELSE IF left = <<>> THEN <<"_">>
             ELSE IF Head(left) = "_" THEN <<"_">>
             ELSE IF toks # <<>> THEN <<toks[1]>>
             ELSE <<"_">>) \o LabelsOf(Tail(segs))
param_external_labels_list(ps) == LabelsOf(split_params_top(ps))

\* _func_key
func_key(name, ps) ==
    <<name, Len(param_external_labels_list(ps)), param_external_labels_list(ps)>>

\* _param_var_names: split at every comma, last non-underscore token left of ":"
RECURSIVE VarNamesOf(_)
VarNamesOf(parts) ==
    IF parts = <<>> THEN <<>>
    ELSE
        LET part == Head(parts)
            c    == Find(part, ":")
            toks == NonUnderscore(IF c = 0 THEN part ELSE Before(part, c))
        IN  (IF part = <<>> THEN <<>>
             ELSE IF toks # <<>> THEN <<toks[Len(toks)]>>
             ELSE <<"arg">>) \o VarNamesOf(Tail(parts))
param_var_names(ps) == VarNamesOf(Split(ps, ","))

\* lines 477-488 of scan_swift_functions: the parameter types of a raw list
RECURSIVE TypesOf(_)
TypesOf(parts) ==
    IF parts = <<>> THEN <<>>
    ELSE
        LET part == Head(parts)
            c    == Find(part, ":")
        IN  (IF part = <<>> THEN <<>>
             ELSE IF c # 0 THEN <<After(part, c)>>
             ELSE <<part>>) \o TypesOf(Tail(parts))
param_types_of(raw_params) == TypesOf(Split(strip_param_defaults(raw_params), ","))

\* _swift_type
swift_type(t) == IF t = <<>> THEN <<"Void">> ELSE t

\* the route key of lines 506-507: parent.name(types joined by ", ") [-> ret]
route_key_of(parent, name, param_types, ret) ==
    (IF parent # "" THEN <<parent, ".">> ELSE <<>>) \o <<name, "(">>
        \o Join(param_types, ",") \o <<")">>
        \o (IF ret # <<>> THEN <<"->">> \o ret ELSE <<>>)


\* ---------------------------------------------------------------- comments

\* _strip_comments_preserve_layout and _strip_comments, on lines: the text of a
\* comment goes, the line stays
ScanView(text) ==
    [i \in 1..Len(text) |-> IF text[i].k = "comment" THEN BlankLine ELSE text[i]]

\* _strip_comments_preserve_layout, character by character

\* _repl_block and _repl_line: a newline stays, every other character is a space
Blanked(s) == [i \in 1..Len(s) |-> IF s[i] = "\n" THEN "\n" ELSE " "]

\* the end of the match of `/\*.*?\*/` (DOTALL) that starts at i: the index of
\* the `/` of the first `*/` behind the opening `/*`; 0 when nothing matches at i
BlockEnd(s, i) ==
    IF i + 1 <= Len(s) /\ s[i] = "/" /\ s[i + 1] = "*"
    THEN LET ends == { j \in (i + 2)..(Len(s) - 1) : s[j] = "*" /\ s[j + 1] = "/" }
         IN  IF ends = {} THEN 0 ELSE (CHOOSE j \in ends : \A k \in ends : j <= k) + 1
    ELSE 0

\* re.sub over the block pattern: leftmost matches, one after the other
RECURSIVE SubBlocks(_, _)
SubBlocks(s, i) ==
    IF i > Len(s) THEN <<>>
    ELSE IF BlockEnd(s, i) # 0
         THEN Blanked(SubSeq(s, i, BlockEnd(s, i))) \o SubBlocks(s, BlockEnd(s, i) + 1)
         ELSE <<s[i]>> \o SubBlocks(s, i + 1)

\* the end of the match of `//.*?$` (MULTILINE) that starts at i: the last
\* character before the next newline or the end of the text; 0 when `//` does
\* not stand at i
LineEnd(s, i) ==
    IF i + 1 <= Len(s) /\ s[i] = "/" /\ s[i + 1] = "/"
    THEN LET stops == { j \in (i + 2)..Len(s) : s[j] = "\n" }
         IN  IF stops = {} THEN Len(s) ELSE (CHOOSE j \in stops : \A k \in stops : j <= k) - 1
    ELSE 0

\* re.sub over the line pattern
RECURSIVE SubLines(_, _)
SubLines(s, i) ==
    IF i > Len(s) THEN <<>>
    ELSE IF LineEnd(s, i) # 0
         THEN Blanked(SubSeq(s, i, LineEnd(s, i))) \o SubLines(s, LineEnd(s, i) + 1)
         ELSE <<s[i]>> \o SubLines(s, i + 1)

strip_comments_preserve_layout(s) == SubLines(SubBlocks(s, 1), 1)

\* ---------------------------------------------------------------- braces

\* line.count("{") - line.count("}")
BraceDelta(line) == line.opens - line.closes

\* index of the line holding the '}' that closes the '{' opened on line i of text
\* (the brace walk of lines 955-967 and 1037-1048), 0 when the text ends first
\* one line of the walk: the first line that brings the depth to 0 ends it
MatchStep(st, line, j) ==
    IF st.at # 0 THEN st
    ELSE IF st.depth + line.opens - line.closes <= 0 /\ line.closes > 0
         THEN [st EXCEPT !.at = j]
    ELSE [st EXCEPT !.depth = @ + BraceDelta(line)]
\* the walk over lines lo..hi in order, halved so that long texts nest shallowly
RECURSIVE MatchWalk(_, _, _, _)
MatchWalk(text, lo, hi, st) ==
    IF lo > hi THEN st
    ELSE IF lo = hi THEN MatchStep(st, text[lo], lo)
    ELSE LET left == MatchWalk(text, lo, (lo + hi) \div 2, st)
         IN  \* the first half is walked to a value before the second half starts
             IF left.at = left.at
             THEN MatchWalk(text, (lo + hi) \div 2 + 1, hi, left) ELSE left
MatchingClose(text, i) == MatchWalk(text, i + 1, Len(text), [depth |-> 1, at |-> 0]).at

\* ---------------------------------------------------------------- prepass

\* the files whose text read_text can decode; the file loops of the prepass scans
\* and of discovery `continue` past the others (lines 92-95, 377-381)
Readable(fs) == SelectSeq(fs, LAMBDA x : x.readable)

RECURSIVE AllLines(_)
\* the lines of every file of the project, in walk order
AllLines(fs) == IF fs = <<>> THEN <<>> ELSE Head(fs).text \o AllLines(Tail(fs))

\* a prepass that takes every declaration line for a declared type, extensions
\* and protocols too
collect_any_declared_types(fs) ==
    { AllLines(fs)[i].name : i \in { j \in 1..Len(AllLines(fs)) :
          TYPE_DECL_RE(AllLines(fs)[j]) } }

\* collect_local_declared_types
collect_local_declared_types(fs) ==
    { AllLines(fs)[i].name : i \in { j \in 1..Len(AllLines(fs)) :
          /\ TYPE_DECL_RE(AllLines(fs)[j])
          /\ AllLines(fs)[j].tkind \in {"class", "struct", "enum", "actor"} } }

HasActorAttr(line) ==
    \E i \in 1..Len(line.attrs \o SigAttrs(line.sig)) :
        EndsWithActor((line.attrs \o SigAttrs(line.sig))[i])
\* ^\s*(access)?\s*(final\s+)?  in front of the type keyword
PlainTypeMods(mods) ==
    \/ mods = <<>>
    \/ Len(mods) = 1 /\ mods[1] \in AccessWords \cup {"final"}
    \/ Len(mods) = 2 /\ mods[1] \in AccessWords /\ mods[2] = "final"

\* collect_actor_and_global_types, one line of one file
ActorStep(st, line) ==
    IF line.k = "blank" THEN st
    ELSE IF HasActorAttr(line) THEN
        IF line.k = "type" /\ line.tkind \in {"class", "struct", "enum"}
        THEN [st EXCEPT !.pending = FALSE, !.globals = @ \cup {line.name}]
        ELSE [st EXCEPT !.pending = TRUE]
    ELSE IF line.k = "type" /\ line.tkind = "actor" /\ line.attrs = <<>>
            /\ PlainTypeMods(line.mods)
        THEN [st EXCEPT !.pending = FALSE, !.actors = @ \cup {line.name}]
    ELSE IF st.pending THEN
        IF line.k = "type" /\ line.tkind \in {"class", "struct", "enum"}
           /\ line.attrs = <<>> /\ PlainTypeMods(line.mods)
        THEN [st EXCEPT !.pending = FALSE, !.globals = @ \cup {line.name}]
        ELSE [st EXCEPT !.pending = (line.attrs # <<>>)]
    ELSE st
\* the line loop over lines lo..hi in order, halved so that long texts nest shallowly
RECURSIVE ActorLines(_, _, _, _)
ActorLines(text, lo, hi, st) ==
    IF lo > hi THEN st
    ELSE IF lo = hi THEN ActorStep(st, text[lo])
    ELSE LET left == ActorLines(text, lo, (lo + hi) \div 2, st)
         IN  \* the first half is walked to a value before the second half starts
             IF left.pending = left.pending
             THEN ActorLines(text, (lo + hi) \div 2 + 1, hi, left) ELSE left
\* collect_actor_and_global_types, one file: <<actor_types, global_actor_types>>
ActorWalk(text) ==
    LET st == ActorLines(text, 1, Len(text),
                         [pending |-> FALSE, actors |-> {}, globals |-> {}])
    IN  <<st.actors, st.globals>>

RECURSIVE collect_actor_and_global_types(_)
collect_actor_and_global_types(fs) ==
    IF fs = <<>> THEN <<{}, {}>>
    ELSE LET here == ActorWalk(Head(fs).text)
             rest == collect_actor_and_global_types(Tail(fs))
         IN  <<here[1] \cup rest[1], here[2] \cup rest[2]>>

\* FUNC_DECL_RE.finditer(body): the pattern is compiled without MULTILINE, so it
\* matches at the start of the body only (after blank space and attribute tokens)
RECURSIVE FirstRequirement(_, _, _)
FirstRequirement(text, j, last) ==
    IF j > last THEN {}
    ELSE IF text[j].k \in {"blank", "attr"} THEN FirstRequirement(text, j + 1, last)
    ELSE IF FUNC_DECL_RE(text[j]).ok
         THEN {func_key(FUNC_DECL_RE(text[j]).name, FUNC_DECL_RE(text[j]).params)}
         ELSE {}

\* _find_protocol_blocks + the requirement keys of each block
ProtocolLines(text) ==
    { i \in 1..Len(text) : text[i].k = "type" /\ text[i].tkind = "protocol"
                           /\ MatchingClose(text, i) # 0 }
ProtocolReqsOf(text, name) ==
    UNION { FirstRequirement(text, i + 1, MatchingClose(text, i) - 1) :
            i \in { j \in ProtocolLines(text) : text[j].name = name } }

\* collect_local_protocol_requirements: protocol name -> set of requirement keys;
\* a protocol with no recorded requirement has no entry (reqs.setdefault on a match)
collect_local_protocol_requirements(fs) ==
    LET scrub(f) == ScanView(fs[f].text)
        found == UNION { { scrub(f)[i].name : i \in ProtocolLines(scrub(f)) } :
                         f \in 1..Len(fs) }
        reqs(n) == UNION { ProtocolReqsOf(scrub(f), n) : f \in 1..Len(fs) }
    IN  [ n \in { m \in found : reqs(m) # {} } |-> reqs(n) ]


\* ---------------------------------------------------------------- discovery

\* a scan that never drops a frame
pop_nothing(stack, brace) == stack

\* while type_stack and brace <= type_stack[-1][1]: type_stack.pop()
RECURSIVE PopFrames(_, _)
PopFrames(stack, brace) ==
    IF stack # <<>> /\ brace <= stack[Len(stack)].depth
    THEN PopFrames(SubSeq(stack, 1, Len(stack) - 1), brace)
    ELSE stack

\* the frame pushed at line 431
FrameOf(line, brace, attrs) ==
    [name     |-> line.name,
     depth    |-> brace,
     gens     |-> line.generics,
     tkind    |-> line.tkind,
     ga       |-> \E i \in 1..Len(attrs) : EndsWithActor(attrs[i]),
     where    |-> line.tkind = "extension" /\ line.where,
     conforms |-> line.conforms]

\* the FunctionRecord of lines 471-544
RecordOf(rel, line, stack, attrs, snap) ==
    LET m        == FUNC_DECL_RE(line)
        top      == stack[Len(stack)]
        has      == stack # <<>>
        parent   == IF has THEN top.name ELSE ""
        is_ext   == has /\ top.tkind = "extension"
        ptypes   == param_types_of(m.params)
        fkey     == func_key(m.name, m.params)
        conforms == IF has THEN top.conforms ELSE <<>>
        matched  == SelectSeq(conforms, LAMBDA p :
                        p \in DOMAIN snap.reqs /\ fkey \in snap.reqs[p])
        external == SelectSeq(conforms, LAMBDA p : p \notin DOMAIN snap.reqs)
    IN  [file        |-> rel,
         parent_type |-> parent,
         name        |-> m.name,
         params_src  |-> m.params,
         param_types |-> ptypes,
         return_type |-> m.ret,
         is_static   |-> \E i \in 1..Len(m.mods) : m.mods[i] \in {"static", "class"},
         modifiers   |-> m.mods,
         route_key   |-> route_key_of(parent, m.name, ptypes, m.ret),
         parent_depth |-> Len(stack),
         parent_qual |-> [i \in 1..Len(stack) |-> stack[i].name],
         parent_generics |-> IF has THEN top.gens ELSE <<>>,
         is_parent_generic |-> has /\ top.gens # <<>>,
         is_parent_actor |-> has /\ (top.tkind = "actor" \/ (is_ext /\ parent \in snap.actors)),
         is_parent_extension |-> is_ext,
         is_parent_extension_constrained |-> is_ext /\ top.where,
         is_parent_global_actor |-> has /\ (top.ga \/ (is_ext /\ parent \in snap.globals)),
         is_func_global_actor |-> \E i \in 1..Len(attrs) : EndsWithActor(attrs[i]),
         is_parent_declared_in_project |-> has /\ parent \in snap.declared,
         parent_conforms |-> conforms,
         is_protocol_req_impl |-> matched # <<>>,
         matched_internal_protocols |-> matched,
         has_external_protocols_in_scope |-> external # <<>>]

\* one iteration of the line loop of scan_swift_functions (lines 388-550);
\* st = [brace, stack, pending, results]
ScanLine(st, line, rel, snap) ==
    LET attrs_on_line == line.attrs \o SigAttrs(line.sig)
        attrs  == st.pending \o attrs_on_line
        mtype  == TYPE_DECL_RE(line)
        mfunc  == FUNC_DECL_RE(line).ok
        stack1 == IF mtype THEN Append(st.stack, FrameOf(line, st.brace, attrs))
                  ELSE st.stack
        pend1  == IF mtype THEN <<>> ELSE st.pending
        brace_after == st.brace + line.opens - line.closes
        opens_body  == line.opens > 0
        top    == stack1[Len(stack1)]
        direct ==
            IF stack1 # <<>>
            THEN \/ st.brace = top.depth + 1
                 \/ brace_after = top.depth + 1
                 \/ (st.brace = top.depth /\ opens_body)
            ELSE \/ st.brace = 0
                 \/ brace_after = 0
        skipped == [brace   |-> brace_after,
                    stack   |-> PopFrames(stack1, brace_after),
                    pending |-> pend1,
                    results |-> st.results]
    IN  IF mfunc /\ stack1 # <<>> /\ top.tkind = "protocol" THEN skipped
        ELSE IF mfunc /\ ~direct THEN skipped
        ELSE [brace   |-> brace_after,
              stack   |-> PopFrames(stack1, brace_after),
              pending |-> IF line.attrs # <<>> /\ ~mtype /\ ~mfunc
                          THEN attrs_on_line ELSE <<>>,
              results |-> IF mfunc
                          THEN Append(st.results, RecordOf(rel, line, stack1, attrs, snap))
                          ELSE st.results]

\* the line loop over lines lo..hi in order, halved so that long texts nest shallowly
RECURSIVE ScanLines(_, _, _, _, _, _)
ScanLines(st, text, lo, hi, rel, snap) ==
    IF lo > hi THEN st
    ELSE IF lo = hi THEN ScanLine(st, text[lo], rel, snap)
    ELSE LET left == ScanLines(st, text, lo, (lo + hi) \div 2, rel, snap)
         IN  \* the first half is scanned to a value before the second half starts
             IF left.brace = left.brace
             THEN ScanLines(left, text, (lo + hi) \div 2 + 1, hi, rel, snap) ELSE left
ScanText(st, text, rel, snap) == ScanLines(st, text, 1, Len(text), rel, snap)

\* the file loop of scan_swift_functions: brace and type_stack restart per file
\* (line 387), pending_attrs and results do not (lines 375-376); the lines scanned
\* are those of the comment-stripped view (line 385)
RECURSIVE ScanFiles(_, _, _, _, _)
ScanFiles(fs, f, pending, results, snap) ==
    IF f > Len(fs) THEN results
    ELSE LET st == ScanText([brace |-> 0, stack |-> <<>>, pending |-> pending,
                             results |-> results], ScanView(fs[f].text), fs[f].rel, snap)
         IN  ScanFiles(fs, f + 1, st.pending, st.results, snap)

\* a discovery that stops after the first file of the tree
scan_first_file(fs, snap) == ScanFiles(SubSeq(fs, 1, 1), 1, <<>>, <<>>, snap)

scan_swift_functions(fs, snap) == ScanFiles(fs, 1, <<>>, <<>>, snap)


\* ---------------------------------------------------------------- partitioning

\* fnmatchcase(v, p) for the patterns of the modelled rules: a literal or "*"
GlobMatch(v, p) == p = "*" \/ p = v
\* matches = lambda p, v: bool(p) and (p == v or fnmatchcase(v, p))
RuleNameMatches(p, v) == p # "" /\ (p = v \/ GlobMatch(v, p))

\* a matcher that ignores the kind of the rule
rule_matches_any_kind(rule, fn) ==
    RuleNameMatches(rule.name, fn.name) \/ RuleNameMatches(rule.name, fn.parent_type)

\* rule_matches_function; a rule is [name, kind] with "" for a missing kind
rule_matches_function(rule, fn) ==
    IF rule.kind = "function" THEN RuleNameMatches(rule.name, fn.name)
    ELSE IF rule.kind \in {"class", "struct", "enum", "protocol", "extension", "actor"}
    THEN RuleNameMatches(rule.name, fn.parent_type)
    ELSE RuleNameMatches(rule.name, fn.name) \/ RuleNameMatches(rule.name, fn.parent_type)

IsExcepted(fn, rules) == \E i \in 1..Len(rules) : rule_matches_function(rules[i], fn)

\* partition_by_exceptions: <<included, excluded>>
partition_by_exceptions(fs, rules) ==
    IF rules = <<>> THEN <<fs, <<>>>>
    ELSE <<SelectSeq(fs, LAMBDA fn : ~IsExcepted(fn, rules)),
           SelectSeq(fs, LAMBDA fn : IsExcepted(fn, rules))>>

\* is_risky_function: the list of reasons
risk_reasons_of(fn, skip_overrides) ==
    (IF Contains(fn.params_src, "->") \/ Contains(fn.params_src, "@escaping")
        THEN <<"closure_param_or_escaping">> ELSE <<>>)
    \o (IF Contains(fn.params_src, "inout") THEN <<"inout_param">> ELSE <<>>)
    \o (IF has_param_default(fn.params_src) THEN <<"param_default">> ELSE <<>>)
    \o (IF Contains(fn.return_type, "some") THEN <<"opaque_return_some">> ELSE <<>>)
    \o (IF Contains(fn.return_type, "Self") THEN <<"return_Self">> ELSE <<>>)
    \o (IF \E i \in 1..Len(fn.param_types) : Contains(fn.param_types[i], "Configuration")
        THEN <<"context_assoc_type_in_params">> ELSE <<>>)
    \o (IF skip_overrides /\ Contains(fn.modifiers, "override")
        THEN <<"override_method">> ELSE <<>>)
is_risky_function(fn, skip_overrides) == risk_reasons_of(fn, skip_overrides) # <<>>

\* partition_risky: <<safe, risky>>; a risky record gains its risk_reasons
RECURSIVE TagRisky(_, _)
TagRisky(fs, skip_overrides) ==
    IF fs = <<>> THEN <<>>
    ELSE (IF is_risky_function(Head(fs), skip_overrides)
          THEN <<[risk_reasons |-> risk_reasons_of(Head(fs), skip_overrides)] @@ Head(fs)>>
          ELSE <<>>) \o TagRisky(Tail(fs), skip_overrides)
partition_risky(fs, skip_overrides) ==
    <<SelectSeq(fs, LAMBDA fn : ~is_risky_function(fn, skip_overrides)),
      TagRisky(fs, skip_overrides)>>

\* ---------------------------------------------------------------- safety filters

\* the declaration pattern of lines 949-950, 1030-1031 and 1143 for one parent name
TypePat(line, parent) ==
    /\ line.k = "type"
    /\ line.tkind \in {"class", "struct", "enum", "actor", "extension"}
    /\ PlainTypeMods(line.mods)
    /\ line.name = parent

RECURSIVE RStripMarks(_)
RStripMarks(tp) ==
    IF tp # <<>> /\ tp[Len(tp)] \in {"?", "!"}
    THEN RStripMarks(SubSeq(tp, 1, Len(tp) - 1)) ELSE tp

\* _strip_type_tokens
strip_type_tokens(tp) ==
    LET a == RStripMarks(tp)
        b == IF Len(a) >= 2 /\ a[1] = "[" /\ a[Len(a)] = "]"
             THEN SubSeq(a, 2, Len(a) - 1) ELSE a
    IN  IF Contains(b, "<") THEN Before(b, Find(b, "<")) ELSE b

\* _collect_nested_types_for_parent (with _find_parent_body)
collect_nested_types_for_parent(src, parent) ==
    LET hits == { i \in 1..Len(src) : TypePat(src[i], parent) }
        first == CHOOSE i \in hits : \A j \in hits : i <= j
        last  == MatchingClose(src, first)
    IN  IF hits = {} \/ last = 0 THEN {}
        ELSE { src[i].name : i \in { j \in (first + 1)..(last - 1) :
                   src[j].k = "type"
                   /\ src[j].tkind \in {"class", "struct", "enum", "actor"} } }

IsName(base, names) == Len(base) = 1 /\ base[1] \in names

\* _uses_bare_nested_type
uses_bare_nested_type(t, original) ==
    LET nested == collect_nested_types_for_parent(original, t.parent_type)
        bare(tp) == LET base == strip_type_tokens(tp)
                    IN  base # <<>> /\ ~Contains(base, ".") /\ IsName(base, nested)
    IN  /\ t.parent_type # ""
        /\ nested # {}
        /\ \/ \E i \in 1..Len(t.param_types) : bare(t.param_types[i])
           \/ bare(t.return_type)

\* _collect_top_level_types (typealias declarations are not among the lines modelled)
TopLevelStep(st, line) ==
    [depth |-> Max0(st.depth + BraceDelta(line)),
     names |-> st.names \cup
                   (IF /\ st.depth = 0
                       /\ line.k = "type"
                       /\ line.tkind \in {"class", "struct", "enum", "actor", "protocol"}
                       /\ PlainTypeMods(line.mods)
                    THEN {line.name} ELSE {})]
\* the line loop over lines lo..hi in order, halved so that long texts nest shallowly
RECURSIVE TopLevelWalk(_, _, _, _)
TopLevelWalk(src, lo, hi, st) ==
    IF lo > hi THEN st
    ELSE IF lo = hi THEN TopLevelStep(st, src[lo])
    ELSE LET left == TopLevelWalk(src, lo, (lo + hi) \div 2, st)
         IN  \* the first half is walked to a value before the second half starts
             IF left.depth = left.depth
             THEN TopLevelWalk(src, (lo + hi) \div 2 + 1, hi, left) ELSE left
collect_top_level_types(src) ==
    TopLevelWalk(src, 1, Len(src), [depth |-> 0, names |-> {}]).names

std_whitelist ==
    {"String", "Int", "Double", "Float", "Bool", "Character", "UInt", "UInt8",
     "UInt16", "UInt32", "UInt64", "Int8", "Int16", "Int32", "Int64", "Date", "Data",
     "URL", "UUID", "Any", "AnyObject", "Never", "Void"}

\* _uses_bare_unknown_capitalized_type
uses_bare_unknown_capitalized_type(t, original) ==
    LET toplv == collect_top_level_types(original)
        is_bare_cap(tok) ==
            /\ tok # <<>>
            /\ tok[1] \in Capitalized
            /\ ~Contains(tok, ".") /\ ~Contains(tok, "[") /\ ~Contains(tok, "]")
        bad(tp) == LET base == strip_type_tokens(tp)
                   IN  is_bare_cap(base) /\ ~IsName(base, toplv)
                       /\ ~IsName(base, std_whitelist)
    IN  /\ t.parent_type # ""
        /\ \/ \E i \in 1..Len(t.param_types) : bad(t.param_types[i])
           \/ bad(t.return_type)

NeedsIsolation(t) ==
    /\ t.is_parent_actor \/ t.is_parent_global_actor \/ t.is_func_global_actor
    /\ ~Contains(t.modifiers, "nonisolated")

\* the skip conditions of the target loop (lines 1126-1177), in their order (the
\* test of line 1137 for "<" or ">" in the parent name never applies: the name
\* is the \w+ group of TYPE_DECL_RE):
\* the reason of the first that applies, "" when the target goes on to the rewriter
SkipReason(t, original, max_params, pol) ==
    IF Len(t.param_types) > max_params THEN "max_params"
    ELSE IF t.parent_type # "" /\ t.is_parent_generic /\ ~t.is_static THEN "generic_parent"
    ELSE IF t.parent_type # "" /\ t.parent_depth > 1 THEN "nested_member"
    ELSE IF t.parent_type # "" /\ ~\E i \in 1..Len(original) : TypePat(original[i], t.parent_type)
         THEN "parent_not_in_file"
    ELSE IF pol.skip_external_protocol_extension_members /\ t.is_parent_extension
            /\ t.has_external_protocols_in_scope THEN "external_protocol_extension"
    ELSE IF t.is_protocol_req_impl /\ ~pol.allow_internal_protocol_reqs
         THEN "internal_protocol_req"
    ELSE IF ~t.is_protocol_req_impl /\ pol.skip_external_protocol_reqs
            /\ t.has_external_protocols_in_scope /\ t.is_parent_extension
         THEN "external_protocol_req"
    ELSE IF pol.skip_external_extensions /\ t.is_parent_extension
            /\ ~t.is_parent_declared_in_project THEN "external_extension"
    ELSE IF t.is_parent_extension_constrained THEN "constrained_extension"
    ELSE IF t.parent_type # "" /\ ~t.is_static /\ NeedsIsolation(t) THEN "actor_isolated"
    ELSE IF uses_bare_nested_type(t, original) THEN "bare_nested_type"
    ELSE IF uses_bare_unknown_capitalized_type(t, original) THEN "bare_unknown_type"
    ELSE ""


\* ---------------------------------------------------------------- rewriter

\* func_pat / func_pat2 (lines 837, 845): attribute tokens, then `func <name>(`
\* directly -- no modifier and no generic clause may stand in between
func_pat(line, name) ==
    line.k = "func" /\ line.mods = <<>> /\ line.generics = <<>> /\ line.name = name

\* \bfunc\s+<name>\s*\(  anywhere in the text (lines 906, 930)
FuncNamed(line, name) == line.k = "func" /\ line.generics = <<>> /\ line.name = name

FirstIndex(S) == IF S = {} THEN 0 ELSE CHOOSE i \in S : \A j \in S : i <= j
LastIndex(S) == IF S = {} THEN 0 ELSE CHOOSE i \in S : \A j \in S : j <= i

impl_name(name) == "obfImpl_" \o name

\* _is_preserved
is_preserved(tok) == tok \in {"objc", "IBAction", "IBSegueAction"} \/ EndsWithActor(tok)

\* the attribute-only lines right above the declaration (lines 866-885): at most
\* LookbackLines lines up, blank lines skipped, anything else ends the walk
RECURSIVE AboveAttrLines(_, _, _)
AboveAttrLines(lines, j, stop) ==
    IF j < 1 \/ j <= stop THEN {}
    ELSE IF lines[j].k = "blank" THEN AboveAttrLines(lines, j - 1, stop)
    ELSE IF lines[j].k = "attr" THEN {j} \cup AboveAttrLines(lines, j - 1, stop)
    ELSE {}

\* re.subn(r"\bprivate\b", "fileprivate", ...) on the modifiers of one line
RelaxPrivate(line) ==
    [line EXCEPT !.mods = [i \in 1..Len(line.mods) |->
                              IF line.mods[i] = "private" THEN "fileprivate"
                              ELSE line.mods[i]]]

\* the wrapper header of lines 974-978
wrapper_hdr(name, parent_type, is_static, params_src, return_type, modifiers) ==
    LET access == SelectSeq(modifiers, LAMBDA m : m \in AccessWords)
    IN  FuncLine(<<>>,
                 (IF access # <<>> THEN <<access[1]>> ELSE <<>>)
                     \o (IF is_static /\ parent_type # "" THEN <<"static">> ELSE <<>>),
                 name,
                 params_src \o <<")">>
                     \o (IF swift_type(return_type) # <<"Void">>
                         THEN <<"->">> \o swift_type(return_type) ELSE <<>>),
                 0, 0)

\* the wrapper body of lines 980-988
wrapper_call(parent_type, is_static, params_src, return_type, route_key, file_id) ==
    CallLine(file_id,
             IF swift_type(return_type) # <<"Void">> THEN "call" ELSE "callVoid",
             route_key,
             (IF parent_type # "" /\ ~is_static THEN <<"self">> ELSE <<>>)
                 \o param_var_names(params_src))

\* the insertion point of lines 944-972: the closing brace of the first declaration
\* of parent_type whose body holds the implementation; 0 when there is none
InsertionPoint(new_src, parent_type, impl_idx) ==
    LET hits == { i \in 1..Len(new_src) :
                    /\ TypePat(new_src[i], parent_type)
                    /\ MatchingClose(new_src, i) # 0
                    /\ i < impl_idx /\ impl_idx < MatchingClose(new_src, i) }
    IN  IF parent_type = "" \/ hits = {} THEN 0
        ELSE MatchingClose(new_src, FirstIndex(hits))

\* new_src[:insert_at] and new_src[insert_at:] on the line of the insertion point:
\* what stands before the closing brace stays on its line, the brace follows the
\* wrapper
BeforeBrace(line) ==
    IF line.k = "comment" THEN [line EXCEPT !.closes = @ - 1] ELSE BlankLine
FromBrace(line) == IF line.k = "comment" THEN CloseLine ELSE line

\* a rewriter that hands back its half-edited text when it gives up
GiveUpEdited(src, new_src) == <<new_src, FALSE>>

\* the text an attempt hands back when no insertion point is resolved
\* (`return src, False` of line 972): the text as it was passed in
GiveUp(src, new_src) == <<src, FALSE>>

\* a rewriter that never finds the implementation name taken
impl_exists_never(src, impl) == FALSE

\* the collision check of lines 904-907: the implementation name is already declared
impl_exists(src, impl) == \E i \in 1..Len(src) : FuncNamed(src[i], impl)

\* _rename_and_add_wrapper: <<text, wrapped>>
rename_and_add_wrapper(src, name, parent_type, is_static, params_src, return_type, route_key, file_id, modifiers) ==
    LET func_idx == FirstIndex({ i \in 1..Len(src) : func_pat(src[i], name) })
        impl     == impl_name(name)
        above    == AboveAttrLines(src, func_idx - 1, func_idx - 1 - LookbackLines)
        inline_preserved == SelectSeq(src[func_idx].attrs, is_preserved)
        to_delete == { j \in above : is_preserved(src[j].attrs[1]) }
        new_func_line ==
            [src[func_idx] EXCEPT
                !.attrs = SelectSeq(src[func_idx].attrs, LAMBDA a : ~is_preserved(a)),
                !.name = impl]
        renamed  == [i \in 1..Len(src) |->
                        IF i = func_idx THEN new_func_line
                        ELSE IF i \in to_delete THEN BlankLine
                        ELSE src[i]]
        impl_idx == FirstIndex({ i \in 1..Len(renamed) : FuncNamed(renamed[i], impl) })
        prev_brace == LastIndex({ i \in 1..(impl_idx - 1) : renamed[i].closes > 0 })
        new_src  == IF Contains(modifiers, "private")
                    THEN [i \in 1..Len(renamed) |->
                            IF prev_brace < i /\ i <= impl_idx
                            THEN RelaxPrivate(renamed[i]) ELSE renamed[i]]
                    ELSE renamed
        insert_at == InsertionPoint(new_src, parent_type, impl_idx)
        attr_lines == [i \in 1..Len(inline_preserved) |-> AttrLine(inline_preserved[i])]
                      \o [i \in 1..Cardinality(to_delete) |->
                            src[CHOOSE j \in to_delete :
                                   Cardinality({ k \in to_delete : k < j }) = i - 1]]
        wrapper  == <<BeforeBrace(new_src[insert_at]), BlankLine>> \o attr_lines
                    \o <<wrapper_hdr(name, parent_type, is_static, params_src,
                                     return_type, modifiers),
                         OpenLine,
                         wrapper_call(parent_type, is_static, params_src, return_type,
                                      route_key, file_id),
                         CloseLine>>
    IN  IF func_idx = 0 THEN <<src, FALSE>>
        ELSE IF impl_exists(src, impl) THEN <<src, FALSE>>
        ELSE IF impl_idx = 0 THEN <<src, FALSE>>
        ELSE IF insert_at = 0 THEN GiveUp(src, new_src)
        ELSE <<SubSeq(new_src, 1, insert_at - 1) \o wrapper
                   \o <<FromBrace(new_src[insert_at])>>
                   \o SubSeq(new_src, insert_at + 1, Len(new_src)), TRUE>>


\* ---------------------------------------------------------------- dispatch runtime

\* _file_scoped_id: the first ten hex digits of the SHA-1 of the relative path,
\* kept as an opaque tag of the path
file_scoped_id(rel) == "sha1:" \o rel

RuntimeName(file_id) == "OBFF" \o file_id

\* register of lines 707-711 with overwrite left at false: the first function
\* stored under a key stays
register(table, key, fn) ==
    IF \E e \in table : e[1] = key THEN table ELSE table \cup {<<key, fn>>}

\* `routes[key]` of lines 714 and 721: whether the table holds the key
HasRoute(table, key) == \E e \in table : e[1] = key

\* a line holding only the text of a delimiter; the empty delimiter is an empty line
MarkerLine(text) == IF text = "" THEN BlankLine ELSE [NoLine EXCEPT !.k = "marker", !.name = text]

KeyAndArgs == <<"_", "key", ":", "String", ",", "_", "args", ":", "Any...", ")">>

\* build_perfile_runtime: the lines of the injected namespace
build_perfile_runtime(file_id, routes) ==
    <<MarkerLine(OBF_BEGIN),
      TypeLine(<<>>, <<>>, "enum", RuntimeName(file_id), <<>>, <<>>, FALSE),
      VarLine(<<"static", "private">>, "routes"),
      VarLine(<<"static", "private">>, "didInstall"),
      FuncLine(<<>>, <<"static", "private">>, "install", <<")">>, 1, 0)>>
    \o routes
    \o <<CloseLine,
         FuncLine(<<>>, <<"static", "private">>, "ensure", <<")">>, 2, 2),
         BlankLine,
         AttrLine("discardableResult"),
         FuncLine(<<>>, <<"static">>, "register",
                  <<"_", "key", ":", "String", ",", "_", "fn", ":", "@escaping", "(",
                    "[", "Any", "]", ")", "throws", "->", "Any", ",", "overwrite", ":",
                    "Bool", "=", "false", ")", "->", "Bool">>, 1, 0),
         StmtLine(1), StmtLine(0), StmtLine(0),
         CloseLine,
         GenericFuncLine(<<"static">>, "call", <<"R">>,
                         KeyAndArgs \o <<"throws", "->", "R">>, 1, 0),
         StmtLine(0), StmtLine(1), StmtLine(0), StmtLine(1), StmtLine(0),
         CloseLine,
         FuncLine(<<>>, <<"static">>, "callVoid", KeyAndArgs \o <<"throws">>, 1, 0),
         StmtLine(0), StmtLine(1), StmtLine(0),
         CloseLine,
         BlankLine,
         CloseLine>>

\* str.find of a delimiter line at or after index from; 0 when absent
FindMarker(text, marker, from) ==
    FirstIndex({ i \in from..Len(text) : text[i].k = "marker" /\ text[i].name = marker })

\* inject_or_replace_block
inject_or_replace_block(original_text, block_text) ==
    LET start == IF OBF_BEGIN # "" THEN FindMarker(original_text, OBF_BEGIN, 1) ELSE 0
        end   == IF OBF_BEGIN # "" /\ start # 0
                 THEN FindMarker(original_text, OBF_END, start + 1) ELSE 0
        has_import == \E i \in 1..Len(original_text) : original_text[i].k = "import"
        hoisted == SelectSeq(original_text, LAMBDA l : l.k = "import")
                   \o <<BlankLine>>
                   \o SelectSeq(original_text, LAMBDA l : l.k # "import")
    IN  IF start # 0 /\ end # 0
        THEN SubSeq(original_text, 1, start - 1) \o block_text
                 \o SubSeq(original_text, end + 1, Len(original_text))
        ELSE IF has_import
        THEN block_text \o <<BlankLine>> \o hoisted
        ELSE <<ImportLine>> \o block_text \o <<BlankLine>> \o original_text

\* a registration that loses the route key of its target
route_registration_unkeyed(t, file_id) == RegLine(<<>>, "wrap0", <<impl_name(t.name)>>)

\* the route registration of lines 1182-1192
route_registration(t, file_id) ==
    LET impl   == impl_name(t.name)
        n      == Len(t.param_types)
        member == t.parent_type # "" /\ ~t.is_static
        owner  == IF NeedsIsolation(t) THEN <<"(", "isolated", t.parent_type, ")">>
                  ELSE <<"(", t.parent_type, ")">>
        plain  == <<"(">> \o Join(t.param_types, ",") \o <<")", "->">>
                  \o swift_type(t.return_type)
        sig    == IF member THEN owner \o <<"->">> \o plain ELSE plain
        ref    == IF member \/ (t.parent_type # "" /\ t.is_static)
                  THEN <<t.parent_type, ".", impl>> ELSE <<impl>>
    IN  RegLine(t.route_key, (IF member THEN "wrapM" ELSE "wrap") \o ToString(n),
                ref \o <<"as">> \o sig)


\* ---------------------------------------------------------------- inputs

\* member declarations a generated type body is drawn from
PlainF     == FuncLine(<<>>, <<>>, "f", <<")">>, 1, 1)
LabelA     == FuncLine(<<>>, <<>>, "f", <<"a", ":", "Int", ")", "->", "Int">>, 1, 1)
LabelB     == FuncLine(<<>>, <<>>, "f", <<"b", ":", "Int", ")", "->", "Int">>, 1, 1)
PrivateF   == FuncLine(<<>>, <<"private">>, "f", <<"_", "x", ":", "Int", ")">>, 1, 1)
StaticF    == FuncLine(<<>>, <<"static">>, "f", <<"x", ":", "Int", ")">>, 1, 1)
ThrowsG    == FuncLine(<<>>, <<>>, "g", <<")", "throws", "->", "Int">>, 1, 1)
AsyncG     == FuncLine(<<>>, <<>>, "g", <<")", "async", "->", "Int">>, 1, 1)
TupleG     == FuncLine(<<>>, <<>>, "g",
                       <<"_", "p", ":", "(", "Int", ",", "Int", ")", ")", "->", "Int">>, 1, 1)
DefaultG   == FuncLine(<<>>, <<>>, "g", <<"x", ":", "Int", "=", "0", ")">>, 1, 1)
ObjcG      == FuncLine(<<"objc">>, <<>>, "g", <<"_", "x", ":", "Int", ")">>, 1, 1)
NestedRefG == FuncLine(<<>>, <<>>, "g", <<"_", "n", ":", "Inner", ")">>, 1, 1)
PrivateVar == VarLine(<<"private">>, "n")
InnerType  == <<TypeLine(<<>>, <<>>, "struct", "Inner", <<>>, <<>>, FALSE),
                PlainF, CloseLine>>

PlainG     == FuncLine(<<>>, <<>>, "g", <<")">>, 1, 1)
UnnamedG   == FuncLine(<<>>, <<>>, "g", <<"_", ":", "Int", ")", "->", "Int">>, 1, 1)

TwoG       == FuncLine(<<>>, <<>>, "g", <<"_", "x", ":", "Int", ",", "_", "y", ":", "Int", ")">>, 1, 1)
ParenG     == FuncLine(<<>>, <<>>, "g",
                       <<"_", "a", ":", "(", "Int", ")", ",", "_", "b", ":", "Int", ")">>, 1, 1)

ParenDefaultG == FuncLine(<<>>, <<>>, "g",
                       <<"_", "a", ":", "(", "Int", ")", ",", "b", ":", "Int", "=", "0", ")">>, 1, 1)
TupleDefaultG == FuncLine(<<>>, <<>>, "g",
                       <<"p", ":", "(", "Int", ",", "Int", ")", "=", "(", "0", ",", "0", ")", ")">>, 1, 1)

\* a method whose body stays open, and a function that closes its own body and
\* the body it stands in on its header line
OuterH     == FuncLine(<<>>, <<>>, "h", <<")">>, 1, 0)
ClosingG   == FuncLine(<<>>, <<>>, "g", <<")">>, 1, 2)

StructA == TypeLine(<<>>, <<>>, "struct", "A", <<>>, <<>>, FALSE)
StructB == TypeLine(<<>>, <<>>, "struct", "B", <<>>, <<>>, FALSE)
GenericG == TypeLine(<<>>, <<>>, "struct", "G", <<"T">>, <<>>, FALSE)
ActorC == TypeLine(<<>>, <<>>, "actor", "C", <<>>, <<>>, FALSE)

ExtOfA == TypeLine(<<>>, <<>>, "extension", "A", <<>>, <<>>, FALSE)
ExtOfX == TypeLine(<<>>, <<>>, "extension", "X", <<>>, <<>>, FALSE)

\* overloads and access levels
CoreItems == { <<PlainF>>, <<LabelA>>, <<LabelB>>, <<PrivateF>>, <<StaticF>> }

\* parameter lists with and without default values
RiskItems == { <<PlainF>>, <<DefaultG>>, <<ParenDefaultG>>, <<TupleDefaultG>> }

\* direct members and functions declared in the body of a method
LocalItems == { <<PlainF>>, <<OuterH, PlainG, CloseLine>>, <<OuterH, ClosingG>> }

\* nested types, bodies closed on a header line, and a closing brace too many
ScopeItems == { <<PlainF>>, InnerType, <<OuterH, ClosingG>>, <<CloseLine>> }

\* what may stand above a type header: attribute lines of their own, a blank line
\* between them and the header
AttrPrefixes ==
    { <<>>, <<AttrLine("MainActor")>>, <<AttrLine("available")>>,
      <<AttrLine("MainActor"), AttrLine("available")>>,
      <<AttrLine("available"), AttrLine("MainActor")>>,
      <<AttrLine("MainActor"), BlankLine>> }
ActorStructA == TypeLine(<<"MainActor">>, <<>>, "struct", "A", <<>>, <<>>, FALSE)

\* a protocol P of the project (without requirements, with one, with two) and the
\* declarations that adopt P
ProtocolP == TypeLine(<<>>, <<>>, "protocol", "P", <<>>, <<>>, FALSE)
ReqF      == FuncLine(<<>>, <<>>, "f", <<")">>, 0, 0)
ReqG      == FuncLine(<<>>, <<>>, "g", <<")">>, 0, 0)
ProtocolDecls ==
    { <<>>, <<ProtocolP, CloseLine>>, <<ProtocolP, ReqF, CloseLine>>,
      <<ProtocolP, ReqG, ReqF, CloseLine>> }
StructAP  == TypeLine(<<>>, <<>>, "struct", "A", <<>>, <<"P">>, FALSE)
ExtAP     == TypeLine(<<>>, <<>>, "extension", "A", <<>>, <<"P">>, FALSE)

\* members and comment lines with a brace in their text: `// }` and `// {`
CommentItems == { <<PlainF>>, <<PlainG>>, <<CommentLine(0, 1)>>, <<CommentLine(1, 0)>> }

\* shapes of signatures, nesting
SigItems ==
    { <<PlainF>>, <<PrivateF>>, <<PrivateVar>>, <<ThrowsG>>, <<AsyncG>>, <<TupleG>>,
      <<DefaultG>>, <<ObjcG>>, <<NestedRefG>>, <<UnnamedG>>, InnerType }

\* overloads that share a route key, next to other names
OverloadItems == { <<PlainF>>, <<LabelA>>, <<LabelB>>, <<PlainG>> }

\* parameter lists of one and two parameters, plain and parenthesised
LimitItems == { <<PlainF>>, <<UnnamedG>>, <<TwoG>>, <<TupleG>>, <<ParenG>> }

\* what may follow the type: nothing, a top-level function, another type
Trailers == { <<>>, <<PlainF>>, <<StructB, PlainF, CloseLine>> }

RECURSIVE SeqsUpTo(_, _)
\* the sequences over S of length at most n
SeqsUpTo(S, n) ==
    IF n = 0 THEN {<<>>}
    ELSE SeqsUpTo(S, n - 1)
         \cup { Append(q, x) : q \in { r \in SeqsUpTo(S, n - 1) : Len(r) = n - 1 }, x \in S }

\* one type with up to MaxMembers members and what follows it
SourceTexts(headers, items, trailers) ==
    { <<h>> \o Flatten(ms) \o <<CloseLine>> \o tr :
        h \in headers, ms \in SeqsUpTo(items, MaxMembers), tr \in trailers }

Projects(texts) == { <<[rel |-> "a.swift", text |-> tx, readable |-> TRUE]>> : tx \in texts }

CoreProjects == Projects(SourceTexts({StructA, GenericG}, CoreItems, Trailers))
OverloadProjects ==
    Projects(SourceTexts({StructA}, OverloadItems,
                         { <<>>, <<StructB, PlainG, CloseLine>>, <<StructB, LabelA, CloseLine>> }))
\* a type or an extension of a type the project does not declare, followed by
\* nothing or by an extension of either
ExtensionProjects ==
    Projects(SourceTexts({StructA, ExtOfX}, { <<PlainF>>, <<PlainG>>, <<StaticF>> },
                         { <<>>, <<ExtOfX, PlainG, CloseLine>>, <<ExtOfA, PlainG, CloseLine>> }))
\* two files: the first may end in an attribute line of its own and may be
\* undecodable, the second holds a type of its own
TreeProjects ==
    { <<[rel |-> "a.swift", text |-> <<StructA, PlainF, CloseLine>> \o tail, readable |-> r],
        [rel |-> "b.swift", text |-> tx, readable |-> TRUE]>> :
        tail \in { <<>>, <<AttrLine("MainActor")>> }, r \in BOOLEAN,
        tx \in SourceTexts({StructB}, { <<PlainF>>, <<PlainG>> }, {<<>>}) }
LocalProjects == Projects(SourceTexts({StructA}, LocalItems, { <<>>, <<PlainF>> }))
ScopeProjects ==
    Projects(SourceTexts({StructA}, ScopeItems, { <<>>, <<StructB, PlainF, CloseLine>> }))
RuntimeProjects == Projects(SourceTexts({StructA}, { <<PlainF>>, <<PlainG>> }, {<<>>}))
Adopters ==
    { <<StructAP>> \o Flatten(ms) \o <<CloseLine>> :
        ms \in SeqsUpTo({ <<PlainF>>, <<PlainG>> }, MaxMembers) }
    \cup { <<StructA, CloseLine, ExtAP>> \o Flatten(ms) \o <<CloseLine>> :
        ms \in SeqsUpTo({ <<PlainF>>, <<PlainG>> }, MaxMembers) }
ProtocolProjects == Projects({ pre \o tx : pre \in ProtocolDecls, tx \in Adopters })
\* what a file may begin with: nothing, the import, an interpreter line, both
ImportPrefixes == { <<>>, <<ImportLine>>, <<ShebangLine>>, <<ShebangLine, ImportLine>> }
ImportProjects ==
    Projects({ pre \o tx : pre \in ImportPrefixes,
               tx \in SourceTexts({StructA}, { <<PlainF>>, <<PlainG>> }, {<<>>}) })
CommentProjects ==
    Projects(SourceTexts({StructA}, CommentItems, { <<>>, <<StructB, PlainF, CloseLine>> }))
AttrProjects ==
    Projects({ pre \o tx : pre \in AttrPrefixes,
               tx \in SourceTexts({StructA, ActorStructA},
                                  { <<PlainF>>, <<StaticF>>, <<PlainG>> }, {<<>>}) })
RiskProjects == Projects(SourceTexts({StructA}, RiskItems, {<<>>}))
ExceptionProjects == Projects(SourceTexts({StructA}, { <<PlainF>>, <<PlainG>> }, Trailers))
LimitProjects == Projects(SourceTexts({StructA}, LimitItems, {<<>>}))
SigProjects == Projects(SourceTexts({StructA, ActorC}, SigItems, {<<>>}))

\* the defaults of build_arg_parser (set_defaults, lines 70-79)
DefaultPolicy ==
    [skip_external_extensions |-> TRUE,
     skip_external_protocol_reqs |-> TRUE,
     allow_internal_protocol_reqs |-> TRUE,
     skip_external_protocol_extension_members |-> TRUE,
     risk_keep_overrides |-> FALSE]

Config(exceptions, dry_run) ==
    [policy |-> DefaultPolicy, exceptions |-> exceptions, dry_run |-> dry_run,
     max_params |-> DefaultMaxParams]

ExceptB == <<[name |-> "B", kind |-> "struct"]>>
ExceptG == <<[name |-> "g", kind |-> "function"]>>

CoreConfigs == { Config(<<>>, FALSE), Config(<<>>, TRUE), Config(ExceptB, FALSE) }
\* --max-params set to the sizes the parameter lists above straddle
LimitConfigs == { [Config(<<>>, FALSE) EXCEPT !.max_params = n] : n \in {1, 2} }
\* --skip-external-extensions on (the default) and off
ExtensionConfigs ==
    { [Config(<<>>, FALSE) EXCEPT !.policy.skip_external_extensions = b] : b \in BOOLEAN }
\* exception rules of every kind: by function, by type, without a kind, exact,
\* glob and empty patterns
ExceptionRules ==
    { [name |-> "g", kind |-> "function"], [name |-> "B", kind |-> "function"],
      [name |-> "B", kind |-> "struct"], [name |-> "f", kind |-> "extension"],
      [name |-> "A", kind |-> ""], [name |-> "f", kind |-> "file"],
      [name |-> "*", kind |-> "function"], [name |-> "", kind |-> ""] }
ExceptionConfigs ==
    { Config(<<r>>, FALSE) : r \in ExceptionRules }
    \cup { Config(<<[name |-> "", kind |-> "struct"], [name |-> "g", kind |-> ""]>>, FALSE) }
SigConfigs == { Config(<<>>, FALSE), Config(ExceptG, FALSE) }

\* ---------------------------------------------------------------- state

VARIABLES
    files,          \* the project on disk: a sequence of [rel, text]
    cfg,            \* the arguments of the run
    pc,             \* main's position
    run,            \* the number of the current run over the tree
    snap,           \* the prepass snapshots
    funcs,          \* every discovered function
    parts,          \* [included, excluded, safe, risky]
    fi,             \* index of the file the injection loop is at
    ti,             \* index of the target inject_per_file is at, 0 outside it
    original,       \* inject_per_file: the text as read
    text,           \* inject_per_file: the working text
    routes,         \* inject_per_file: the accumulated route registrations
    wrapped_count,  \* inject_per_file: its counter
    counted,        \* inject_per_file: the targets behind the counter, in order
    totals,         \* main: [touched_files, wrapped_total]
    writes,         \* how often each file was written in this run
    last,           \* the latest rewrite attempt: target, outcome, text before and after
    ret,            \* the latest return of inject_per_file
    prev_files,     \* the project as it was when the current run began
    rt,             \* the injected namespace of the first file while the program runs
    content,        \* a source text, character by character
    scan_text,      \* the view of content the scanner reads
    strip_pc        \* the position of _strip_comments_preserve_layout

\* the state of the built program and of the comment stripper: the pipeline
\* keeps neither
beside == <<rt, content, scan_text, strip_pc>>

vars == <<files, cfg, pc, run, snap, funcs, parts, fi, ti, original, text, routes,
          wrapped_count, counted, totals, writes, last, ret, prev_files, beside>>

\* the state of the pipeline: the built program and the stripper leave it alone
pipeline == <<files, cfg, pc, run, snap, funcs, parts, fi, ti, original, text, routes,
              wrapped_count, counted, totals, writes, last, ret, prev_files>>

Threads == 1..MaxThreads

\* the namespace as the program starts: `routes = [:]`, `didInstall = false`
\* (lines 700-701), every thread outside the accessors
NoRuntime ==
    [routes |-> {}, didInstall |-> FALSE,
     at |-> [t \in Threads |-> "idle"], key |-> [t \in Threads |-> <<>>],
     reg |-> [t \in Threads |-> 0],
     calls |-> 0, installs |-> 0, missing |-> {}]

NoSnap == [actors |-> {}, globals |-> {}, declared |-> {}, reqs |-> <<>>]
NoParts == [included |-> <<>>, excluded |-> <<>>, safe |-> <<>>, risky |-> <<>>]
NoAttempt == [seen |-> FALSE]
NoReturn == [seen |-> FALSE]

\* the state main starts from, for a family of trees and of arguments
InitPipeline(projects, configs) ==
    /\ files \in projects
    /\ cfg \in configs
    /\ pc = "start"
    /\ run = 1
    /\ snap = NoSnap
    /\ funcs = <<>>
    /\ parts = NoParts
    /\ fi = 0
    /\ ti = 0
    /\ original = <<>>
    /\ text = <<>>
    /\ routes = <<>>
    /\ wrapped_count = 0
    /\ counted = <<>>
    /\ totals = [touched_files |-> 0, wrapped_total |-> 0]
    /\ writes = [f \in 1..Len(files) |-> 0]
    /\ last = NoAttempt
    /\ ret = NoReturn
    /\ prev_files = files

InitOver(projects, configs) ==
    /\ InitPipeline(projects, configs)
    /\ rt = NoRuntime
    /\ content = <<>>
    /\ scan_text = <<>>
    /\ strip_pc = "idle"

Init == InitOver(CoreProjects, CoreConfigs)
InitOverloads == InitOver(OverloadProjects, {Config(<<>>, FALSE), Config(<<>>, TRUE)})
InitLimit == InitOver(LimitProjects, LimitConfigs)
InitExtensions == InitOver(ExtensionProjects, ExtensionConfigs)
InitRisk == InitOver(RiskProjects, SigConfigs)
InitExceptions == InitOver(ExceptionProjects, ExceptionConfigs)
InitTree == InitOver(TreeProjects, {Config(<<>>, FALSE)})
InitLocal == InitOver(LocalProjects, {Config(<<>>, FALSE), Config(<<>>, TRUE)})
InitScopes == InitOver(ScopeProjects, {Config(<<>>, FALSE)})
InitAttrs == InitOver(AttrProjects, {Config(<<>>, FALSE)})
InitComments == InitOver(CommentProjects, {Config(<<>>, FALSE)})
InitImports == InitOver(ImportProjects, {Config(<<>>, FALSE)})
InitProtocols == InitOver(ProtocolProjects, {Config(<<>>, FALSE)})
InitRuntime == InitOver(RuntimeProjects, {Config(<<>>, FALSE)})
InitSig == InitOver(SigProjects, SigConfigs)

\* main, lines 1231-1233: the three prepass scans
Prepass ==
    /\ pc = "start"
    /\ UNCHANGED beside
    /\ snap' = [actors   |-> collect_actor_and_global_types(Readable(files))[1],
                globals  |-> collect_actor_and_global_types(Readable(files))[2],
                declared |-> collect_local_declared_types(Readable(files)),
                reqs     |-> collect_local_protocol_requirements(Readable(files))]
    /\ pc' = "prepassed"
    /\ UNCHANGED <<files, cfg, run, funcs, parts, fi, ti, original, text, routes,
                   wrapped_count, counted, totals, writes, last, ret, prev_files>>

\* main, lines 1234-1244: function discovery over the whole tree
Discover ==
    /\ pc = "prepassed"
    /\ UNCHANGED beside
    /\ funcs' = scan_swift_functions(Readable(files), snap)
    /\ pc' = "scanned"
    /\ UNCHANGED <<files, cfg, run, snap, parts, fi, ti, original, text, routes,
                   wrapped_count, counted, totals, writes, last, ret, prev_files>>

\* main, lines 1253-1274: exception and risk partitioning, start of the file loop
Partition ==
    /\ pc = "scanned"
    /\ UNCHANGED beside
    /\ LET byex == partition_by_exceptions(funcs, cfg.exceptions)
           byrisk == partition_risky(byex[1], ~cfg.policy.risk_keep_overrides)
       IN  parts' = [included |-> byex[1], excluded |-> byex[2],
                     safe |-> byrisk[1], risky |-> byrisk[2]]
    /\ pc' = "inject"
    /\ fi' = 1
    /\ ti' = 0
    /\ totals' = [touched_files |-> 0, wrapped_total |-> 0]
    /\ UNCHANGED <<files, cfg, run, snap, funcs, original, text, routes,
                   wrapped_count, counted, writes, last, ret, prev_files>>

\* main, lines 1250-1263: the inventories main writes under _dyn_obf_scan_dumps,
\* the only artifacts of a run besides the rewritten sources; the records of the
\* risky inventory alone carry reasons (risk_reasons)
dumps ==
    [all_funcs |-> funcs, clean_funcs |-> parts.included,
     excluded_funcs |-> parts.excluded, safe_funcs |-> parts.safe,
     risky_funcs |-> parts.risky]

\* by_file.get(rel, []) of lines 1268-1280
Targets(f) == SelectSeq(parts.safe, LAMBDA t : t.file = files[f].rel)

\* main, lines 1276-1281, and inject_per_file, lines 1008-1011: a file without
\* targets, or one that cannot be read, is passed over, otherwise its text is read
\* and the target loop begins
InjectOpen ==
    /\ pc = "inject" /\ ti = 0 /\ fi <= Len(files)
    /\ UNCHANGED beside
    /\ IF Targets(fi) = <<>> \/ ~files[fi].readable
       THEN /\ fi' = fi + 1
            /\ UNCHANGED <<ti, original, text, routes, wrapped_count, counted>>
       ELSE /\ ti' = 1
            /\ original' = files[fi].text
            /\ text' = files[fi].text
            /\ routes' = <<>>
            /\ wrapped_count' = 0
            /\ counted' = <<>>
            /\ fi' = fi
    /\ UNCHANGED <<files, cfg, pc, run, snap, funcs, parts, totals, writes, last, ret,
                   prev_files>>

\* inject_per_file, lines 1125-1192: one iteration of the target loop
InjectTarget ==
    /\ pc = "inject" /\ ti >= 1 /\ ti <= Len(Targets(fi))
    /\ UNCHANGED beside
    /\ LET t    == Targets(fi)[ti]
           skip == SkipReason(t, original, cfg.max_params, cfg.policy)
           out  == rename_and_add_wrapper(text, t.name, t.parent_type, t.is_static,
                                          t.params_src, t.return_type, t.route_key,
                                          file_scoped_id(files[fi].rel), t.modifiers)
           did  == skip = "" /\ out[2]
       IN  /\ text' = IF did THEN out[1] ELSE text
           /\ wrapped_count' = IF did THEN wrapped_count + 1 ELSE wrapped_count
           /\ counted' = IF did THEN Append(counted, t) ELSE counted
           /\ routes' = IF did
                        THEN Append(routes, route_registration(t, file_scoped_id(files[fi].rel)))
                        ELSE routes
           /\ last' = [seen |-> TRUE, target |-> t, skip |-> skip, did |-> did,
                       before |-> text,
                       returned |-> IF skip = "" THEN out[1] ELSE text]
    /\ ti' = ti + 1
    /\ UNCHANGED <<files, cfg, pc, run, snap, funcs, parts, fi, original, totals,
                   writes, ret, prev_files>>

\* a flush that writes whatever the counter and the dry-run flag say
writes_back_always(count, dry_run) == TRUE

\* lines 1193-1195: the runtime is flushed only when a function was wrapped, and
\* the result written only outside a dry run
flushes(count) == count # 0
writes_back(count, dry_run) == flushes(count) /\ ~dry_run

\* inject_per_file, lines 1193-1196, and main, lines 1293-1294: the runtime is
\* flushed and the file written, or nothing is when no function was wrapped
InjectClose ==
    /\ pc = "inject" /\ ti >= 1 /\ ti > Len(Targets(fi))
    /\ UNCHANGED beside
    /\ LET final_text ==
               inject_or_replace_block(text,
                   build_perfile_runtime(file_scoped_id(files[fi].rel), routes))
           write == writes_back(wrapped_count, cfg.dry_run)
       IN  /\ files' = IF write THEN [files EXCEPT ![fi].text = final_text] ELSE files
           /\ writes' = IF write THEN [writes EXCEPT ![fi] = @ + 1] ELSE writes
           /\ ret' = [seen |-> TRUE, file |-> fi, touched |-> flushes(wrapped_count),
                      wrapped |-> wrapped_count, counted |-> counted,
                      final |-> IF flushes(wrapped_count) THEN final_text ELSE <<>>]
           /\ totals' = [touched_files |-> totals.touched_files
                                              + (IF flushes(wrapped_count) THEN 1 ELSE 0),
                         wrapped_total |-> totals.wrapped_total + wrapped_count]
    /\ fi' = fi + 1
    /\ ti' = 0
    /\ UNCHANGED <<cfg, pc, run, snap, funcs, parts, original, text, routes,
                   wrapped_count, counted, last, prev_files>>

\* main, lines 1295-1296: the file loop is over
Finish ==
    /\ pc = "inject" /\ ti = 0 /\ fi > Len(files)
    /\ UNCHANGED beside
    /\ pc' = "done"
    /\ UNCHANGED <<files, cfg, run, snap, funcs, parts, fi, ti, original, text, routes,
                   wrapped_count, counted, totals, writes, last, ret, prev_files>>

\* the tool is run again, with the same arguments, over the tree it left behind
Rerun ==
    /\ pc = "done" /\ run < MaxRuns
    /\ UNCHANGED beside
    /\ pc' = "start"
    /\ run' = run + 1
    /\ prev_files' = files
    /\ writes' = [f \in 1..Len(files) |-> 0]
    /\ snap' = NoSnap
    /\ funcs' = <<>>
    /\ parts' = NoParts
    /\ fi' = 0
    /\ ti' = 0
    /\ original' = <<>>
    /\ text' = <<>>
    /\ routes' = <<>>
    /\ wrapped_count' = 0
    /\ counted' = <<>>
    /\ last' = NoAttempt
    /\ ret' = NoReturn
    /\ UNCHANGED <<files, cfg, totals>>

Next ==
    \/ Prepass
    \/ Discover
    \/ Partition
    \/ InjectOpen
    \/ InjectTarget
    \/ InjectClose
    \/ Finish
    \/ Rerun

Spec == Init /\ [][Next]_vars
SpecOverloads == InitOverloads /\ [][Next]_vars
SpecLimit == InitLimit /\ [][Next]_vars
SpecExtensions == InitExtensions /\ [][Next]_vars
SpecRisk == InitRisk /\ [][Next]_vars
SpecExceptions == InitExceptions /\ [][Next]_vars
SpecTree == InitTree /\ [][Next]_vars
SpecLocal == InitLocal /\ [][Next]_vars
SpecScopes == InitScopes /\ [][Next]_vars
SpecAttrs == InitAttrs /\ [][Next]_vars
SpecComments == InitComments /\ [][Next]_vars
SpecImports == InitImports /\ [][Next]_vars
SpecProtocols == InitProtocols /\ [][Next]_vars
SpecSig == InitSig /\ [][Next]_vars


\* ---------------------------------------------------------------- properties

\* the declarations of the injected namespace OBFF<file-id> in a file
RuntimeBlocks(file) ==
    { i \in 1..Len(file.text) :
        /\ file.text[i].k = "type"
        /\ file.text[i].name = RuntimeName(file_scoped_id(file.rel)) }

\* a run ended over a tree that the run before it had rewritten
SecondPass ==
    /\ pc = "done"
    /\ run >= 2
    /\ \E f \in 1..Len(prev_files) : RuntimeBlocks(prev_files[f]) # {}

\* C1: a run over files an earlier run has rewritten wraps no function and leaves
\* every file as it found it (no implementation sibling or wrapper of the earlier
\* run is renamed and wrapped again)
C1_SecondRunIsIdle ==
    SecondPass => (totals.wrapped_total = 0 /\ files = prev_files)

\* C2: whatever the number of runs, a file holds at most one injected namespace
\* OBFF<file-id>: an existing block is replaced, not joined by a second one
C2_AtMostOneBlock ==
    \A f \in 1..Len(files) : Cardinality(RuntimeBlocks(files[f])) <= 1


\* the latest attempt of the target loop ended in a rename and a wrapper
Wrapped == last.seen /\ last.did

\* where that attempt left the implementation and the wrapper's forwarding call
ImplAt ==
    FirstIndex({ p \in 1..Len(last.returned) :
                   FuncNamed(last.returned[p], impl_name(last.target.name)) })
CallAt ==
    FirstIndex({ p \in 1..Len(last.returned) :
                   last.returned[p].k = "call" /\ last.returned[p].key = last.target.route_key })

\* the line of the text before the attempt that the attempt renamed
RenamedAt ==
    IF CallAt < ImplAt THEN ImplAt - (Len(last.returned) - Len(last.before)) ELSE ImplAt

\* the type declarations whose braces enclose line j of a text
Enclosing(tx, j) ==
    { i \in 1..(j - 1) : tx[i].k = "type" /\ MatchingClose(tx, i) > j }
Owner(tx, j) == LastIndex(Enclosing(tx, j))
IsStaticDecl(line) == Contains(line.mods, "static") \/ Contains(line.mods, "class")

\* the declarations the safety policy keeps from being wrapped
GenericInstanceMethod(tx, j) ==
    Owner(tx, j) # 0 /\ tx[Owner(tx, j)].generics # <<>> /\ ~IsStaticDecl(tx[j])
NestedMember(tx, j) == Cardinality(Enclosing(tx, j)) >= 2
ActorIsolated(tx, j) ==
    /\ Owner(tx, j) # 0
    /\ ~IsStaticDecl(tx[j])
    /\ ~Contains(tx[j].mods, "nonisolated")
    /\ \/ tx[Owner(tx, j)].tkind = "actor"
       \/ HasActorAttr(tx[Owner(tx, j)])
       \/ HasActorAttr(tx[j])
InConstrainedExtension(tx, j) ==
    Owner(tx, j) # 0 /\ tx[Owner(tx, j)].tkind = "extension" /\ tx[Owner(tx, j)].where
NamesNestedType(tx, j) ==
    /\ Owner(tx, j) # 0
    /\ \E i \in (Owner(tx, j) + 1)..(MatchingClose(tx, Owner(tx, j)) - 1) :
          /\ tx[i].k = "type"
          /\ Contains(tx[j].sig, tx[i].name)
          /\ ~Contains(tx[j].sig, ".")
Shielded(tx, j) ==
    \/ GenericInstanceMethod(tx, j)
    \/ NestedMember(tx, j)
    \/ ActorIsolated(tx, j)
    \/ InConstrainedExtension(tx, j)
    \/ NamesNestedType(tx, j)

\* C3: no instance method of a generic type, member of a nested type, isolated
\* actor method, member of a constrained extension or function naming a bare
\* nested type is ever renamed and wrapped
C3_PolicySound == Wrapped => ~Shielded(last.before, RenamedAt)

\* the target loop of the current file has tried its last target
LoopOver == pc = "inject" /\ ti >= 1 /\ ti > Len(Targets(fi))

\* C4: the route registrations accumulated for one file carry pairwise distinct
\* route keys, whatever the targets (overloads, same names in several types)
C4_RouteKeysUnique ==
    \A i, j \in 1..Len(routes) : routes[i].key = routes[j].key => i = j

\* several registrations were accumulated for a file two of whose targets
\* share a route key
C4_Witness ==
    /\ LoopOver
    /\ Len(routes) >= 2
    /\ \E a, b \in 1..Len(Targets(fi)) :
          a # b /\ Targets(fi)[a].route_key = Targets(fi)[b].route_key

\* the lines of the text before the attempt that declare the attempted target
TargetDecls ==
    { j \in 1..Len(last.before) :
        /\ FUNC_DECL_RE(last.before[j]).ok
        /\ last.before[j].name = last.target.name
        /\ last.before[j].mods = last.target.modifiers
        /\ FUNC_DECL_RE(last.before[j]).params = last.target.params_src
        /\ FUNC_DECL_RE(last.before[j]).ret = last.target.return_type
        /\ (IF Owner(last.before, j) = 0 THEN ""
            ELSE last.before[Owner(last.before, j)].name) = last.target.parent_type }

\* the header of the wrapper the attempt added: two lines above its forwarding call
WrapperHdr == last.returned[CallAt - 2]

\* a declaration read as Swift reads it: its parameter clause ends at the
\* parenthesis that closes it, effect specifiers and return type follow
Nesting(toks, i) ==
    Cardinality({ k \in 1..(i - 1) : toks[k] \in {"(", "[", "<"} })
    - Cardinality({ k \in 1..(i - 1) : toks[k] \in {")", "]", ">"} })
ParamsEnd(sig) == FirstIndex({ i \in 1..Len(sig) : sig[i] = ")" /\ Nesting(sig, i) = 0 })
DeclParams(sig) == SubSeq(sig, 1, ParamsEnd(sig) - 1)
DeclTail(sig) == SubSeq(sig, ParamsEnd(sig) + 1, Len(sig))
DeclReturns(sig) == Contains(DeclTail(sig), "->") /\ ~Contains(DeclTail(sig), "Void")
Colons(ps) == { i \in 2..Len(ps) : ps[i] = ":" /\ Nesting(ps, i) = 0 }
DeclInternalNames(ps) ==
    [n \in 1..Cardinality(Colons(ps)) |->
        ps[(CHOOSE i \in Colons(ps) :
               Cardinality({ k \in Colons(ps) : k < i }) = n - 1) - 1]]
AccessOf(line) ==
    IF \E i \in 1..Len(line.mods) : line.mods[i] \in AccessWords
    THEN line.mods[FirstIndex({ i \in 1..Len(line.mods) : line.mods[i] \in AccessWords })]
    ELSE "internal"

SameSignature(w, d) ==
    /\ w.name = d.name
    /\ w.sig = d.sig
    /\ IsStaticDecl(w) = IsStaticDecl(d)
    /\ AccessOf(w) = AccessOf(d)

\* C5: the wrapper of a wrapped function has the external signature of the original
\* declaration: name, parameter list, return type, static-ness, access level and
\* effect specifiers
C5_SignaturePreserved ==
    Wrapped => \A j \in TargetDecls : SameSignature(WrapperHdr, last.before[j])

\* C10: the wrapper forwards the route key, then self exactly for a non-static
\* member, then the internal parameter names in declaration order, through the
\* value-returning accessor when the function returns a value and the void one
\* when it does not
C10_ForwardingShape ==
    Wrapped =>
        \A j \in TargetDecls :
            LET d == last.before[j]
                c == last.returned[CallAt]
            IN  /\ c.key = last.target.route_key
                /\ c.args = (IF Owner(last.before, j) # 0 /\ ~IsStaticDecl(d)
                             THEN <<"self">> ELSE <<>>)
                            \o DeclInternalNames(DeclParams(d.sig))
                /\ c.name = IF DeclReturns(d.sig) THEN "call" ELSE "callVoid"

\* C6: a file is written back exactly when a function of it was wrapped and the
\* run is no dry run, and at most once per run; a file none of whose functions was
\* wrapped stays as it was, without a runtime block, and inject_per_file returns
\* (False, 0) for it
C6_WrittenIffWrapped ==
    /\ \A f \in 1..Len(files) :
          /\ writes[f] <= 1
          /\ writes[f] = 0 => files[f] = prev_files[f]
    /\ ret.seen =>
          /\ (writes[ret.file] = 1) <=> (ret.wrapped > 0 /\ ~cfg.dry_run)
          /\ ret.touched <=> (ret.wrapped > 0)
          /\ writes[ret.file] = 1 => files[ret.file].text = ret.final
          /\ ret.wrapped = 0 =>
                /\ files[ret.file] = prev_files[ret.file]
                /\ RuntimeBlocks(files[ret.file]) = RuntimeBlocks(prev_files[ret.file])

\* outside a dry run, a file with targets came back with none of them wrapped
C6_Witness ==
    /\ ret.seen
    /\ ~cfg.dry_run
    /\ Targets(ret.file) # <<>>
    /\ ret.wrapped = 0
    /\ writes[ret.file] = 0

\* the latest attempt reached the rewriter and the rewriter gave up
Failed == last.seen /\ last.skip = "" /\ ~last.did

\* C7: when _rename_and_add_wrapper cannot complete for a target it returns its
\* input text with wrapped = False, and inject_per_file neither appends a route
\* registration nor counts the function
C7_FailureLeavesText ==
    [][ (pc = "inject" /\ ti >= 1 /\ ti' = ti + 1 /\ last'.skip = "" /\ ~last'.did)
        => /\ last'.returned = text
           /\ text' = text
           /\ routes' = routes
           /\ wrapped_count' = wrapped_count ]_vars

\* the rewriter gave up after it had found and renamed the declaration: the
\* target has no enclosing type to take the wrapper
C7_Witness ==
    /\ Failed
    /\ last.target.parent_type = ""
    /\ \E i \in 1..Len(last.before) : func_pat(last.before[i], last.target.name)
    /\ ~impl_exists(last.before, impl_name(last.target.name))

\* the index in the text before the attempt of each line of it afterwards: the
\* wrapper's lines end one line below the forwarding call
Inserted == Len(last.returned) - Len(last.before)
Moved(j) == IF j < CallAt + 2 - Inserted THEN j ELSE j + Inserted

\* C8: the implementation of a wrapped private function is declared fileprivate,
\* and the rewrite changes the access modifier of no other declaration
C8_LeastWidening ==
    (Wrapped /\ Contains(last.target.modifiers, "private")) =>
        /\ AccessOf(last.returned[ImplAt]) = "fileprivate"
        /\ \A j \in 1..Len(last.before) :
              j # RenamedAt => last.returned[Moved(j)].mods = last.before[j].mods

\* the registrations inside the installer of the runtime block a text begins with
Installer(tx) ==
    LET block == FirstIndex({ i \in 1..Len(tx) : tx[i].k = "type" /\ tx[i].tkind = "enum" })
        inst  == FirstIndex({ i \in block..Len(tx) :
                                tx[i].k = "func" /\ tx[i].name = "install" })
    IN  IF block = 0 \/ inst = 0 THEN {}
        ELSE { i \in inst..MatchingClose(tx, inst) : tx[i].k = "reg" }

\* C9: when inject_per_file finishes a file, the text it produced declares the
\* implementation sibling of every function it counted, the installer of the
\* injected runtime holds exactly one registration under that function's route
\* key, and the registrations are as many as the functions counted
C9_RoundTrip ==
    (ret.seen /\ ret.touched) =>
        /\ \A k \in 1..Len(ret.counted) :
              /\ impl_exists(ret.final, impl_name(ret.counted[k].name))
              /\ Cardinality({ i \in Installer(ret.final) :
                                 ret.final[i].key = ret.counted[k].route_key }) = 1
        /\ Cardinality(Installer(ret.final)) = ret.wrapped
        /\ Len(ret.counted) = ret.wrapped

\* a file came back with two functions wrapped
C9_Witness == ret.seen /\ ret.touched /\ ret.wrapped >= 2 /\ Len(ret.counted) >= 2

\* the number of parameters a declaration declares: one top-level colon each
DeclCount(sig) == Cardinality(Colons(DeclParams(sig)))

\* C11: with maximum parameter count N the parameter-count check skips a target
\* exactly when the function declares more than N parameters (N passes, N + 1
\* is skipped)
C11_ParamLimit ==
    last.seen =>
        \A j \in TargetDecls :
            (last.skip = "max_params") <=> (DeclCount(last.before[j].sig) > cfg.max_params)

\* line j of a text sits in an extension of a type that no file of the project,
\* as the run found it, declares as class, struct, enum or actor
InExternalExtension(tx, j) ==
    /\ Owner(tx, j) # 0
    /\ tx[Owner(tx, j)].tkind = "extension"
    /\ ~\E f \in 1..Len(prev_files) : \E i \in 1..Len(prev_files[f].text) :
          /\ prev_files[f].text[i].k = "type"
          /\ prev_files[f].text[i].tkind \in {"class", "struct", "enum", "actor"}
          /\ prev_files[f].text[i].name = tx[Owner(tx, j)].name

DeclsOf(tx, r) ==
    { j \in 1..Len(tx) :
        /\ FUNC_DECL_RE(tx[j]).ok
        /\ tx[j].name = r.name
        /\ tx[j].mods = r.modifiers
        /\ FUNC_DECL_RE(tx[j]).params = r.params_src
        /\ FUNC_DECL_RE(tx[j]).ret = r.return_type
        /\ (IF Owner(tx, j) = 0 THEN "" ELSE tx[Owner(tx, j)].name) = r.parent_type }

\* the parameter list of a declaration gives some parameter a default value
DeclHasDefault(sig) ==
    \E i \in 1..Len(DeclParams(sig)) :
        DeclParams(sig)[i] = "=" /\ Nesting(DeclParams(sig), i) = 0

\* the text of the file a record names, as the run found it
FoundText(r) ==
    prev_files[CHOOSE f \in 1..Len(prev_files) : prev_files[f].rel = r.file].text

\* C13: once the functions are partitioned, every included function whose
\* parameter list gives a parameter a default value is in the risky partition
\* with reason param_default, and none is among the rewriter's targets
C13_DefaultsAreRisky ==
    pc \in {"inject", "done"} =>
        /\ \A i \in 1..Len(parts.safe) : \A j \in DeclsOf(FoundText(parts.safe[i]), parts.safe[i]) :
              ~DeclHasDefault(FoundText(parts.safe[i])[j].sig)
        /\ \A i \in 1..Len(parts.risky) : \A j \in DeclsOf(FoundText(parts.risky[i]), parts.risky[i]) :
              DeclHasDefault(FoundText(parts.risky[i])[j].sig)
                  => Contains(parts.risky[i].risk_reasons, "param_default")

\* a pattern names a value: never when empty, else exactly or as the glob "*"
Names(p, v) == p # "" /\ (p = v \/ p = "*")

\* some exception rule of the run matches a function: a rule of kind function by
\* the function's name, a rule of a type kind by the enclosing type's name, a
\* rule of another or of no kind by either
Excepted(fn) ==
    \E i \in 1..Len(cfg.exceptions) :
        LET r == cfg.exceptions[i]
            types == {"class", "struct", "enum", "protocol", "extension", "actor"}
        IN  \/ r.kind = "function" /\ Names(r.name, fn.name)
            \/ r.kind \in types /\ Names(r.name, fn.parent_type)
            \/ r.kind \notin types \cup {"function"}
               /\ (Names(r.name, fn.name) \/ Names(r.name, fn.parent_type))

\* C14: the exception partition splits the discovered functions, in their order,
\* into the excluded ones, which are exactly those some rule matches, and the
\* included ones; no excluded function is classified for risk or handed to the
\* rewriter
C14_ExceptionPartition ==
    /\ pc \in {"inject", "done"} =>
          /\ parts.excluded = SelectSeq(funcs, Excepted)
          /\ parts.included = SelectSeq(funcs, LAMBDA fn : ~Excepted(fn))
          /\ \A i \in 1..Len(parts.safe) : ~Excepted(parts.safe[i])
          /\ \A i \in 1..Len(parts.risky) : ~Excepted(parts.risky[i])
    /\ last.seen => ~Excepted(last.target)

\* a target was handed to the rewriter in a run whose rules excluded another
\* function
C14_Witness ==
    /\ pc = "inject"
    /\ last.seen
    /\ last.target \in { parts.included[i] : i \in 1..Len(parts.included) }
    /\ Len(parts.excluded) >= 1

\* C15: a run over a tree one of whose source files cannot be read aborts: it
\* never gets to the file loop of the rewriter, and it writes no source file
C15_UnreadableSourceAborts ==
    (\E f \in 1..Len(files) : ~files[f].readable) =>
        /\ pc \notin {"inject", "done"}
        /\ \A f \in 1..Len(files) : writes[f] = 0

\* an inventory of the run records function t as left out, with a reason: it is
\* listed as excluded, or as risky with its risk reasons
Audited(t) ==
    \/ \E i \in 1..Len(dumps.excluded_funcs) :
          /\ dumps.excluded_funcs[i].file = t.file
          /\ dumps.excluded_funcs[i].route_key = t.route_key
    \/ \E i \in 1..Len(dumps.risky_funcs) :
          /\ dumps.risky_funcs[i].file = t.file
          /\ dumps.risky_funcs[i].route_key = t.route_key
          /\ dumps.risky_funcs[i].risk_reasons # <<>>

\* C16: a function of the safe inventory that the target loop leaves unwrapped,
\* by a safety filter or by a failed rewrite, is recorded with its reason in an
\* inventory of the run
C16_SkipsAudited ==
    (last.seen /\ ~last.did) => Audited(last.target)

\* C17: the records discovery emits for a file are those a scan of that file
\* alone, from a fresh scanner state and with the same prepass snapshots, emits
C17_FilesScannedAlone ==
    pc \in {"scanned", "inject", "done"} =>
        \A f \in 1..Len(prev_files) :
            prev_files[f].readable =>
                SelectSeq(funcs, LAMBDA r : r.file = prev_files[f].rel)
                    = scan_swift_functions(<<prev_files[f]>>, snap)

\* the prepass snapshots and the records of discovery are those of the whole tree
\* as the run found it
Built ==
    /\ snap.actors = collect_actor_and_global_types(Readable(prev_files))[1]
    /\ snap.globals = collect_actor_and_global_types(Readable(prev_files))[2]
    /\ snap.declared = collect_local_declared_types(Readable(prev_files))
    /\ snap.reqs = collect_local_protocol_requirements(Readable(prev_files))
    /\ funcs = ScanFiles(Readable(prev_files), 1, <<>>, <<>>, snap)
AnyWrite == \E f \in 1..Len(files) : writes[f] > 0

\* C18: in every run the three prepass scans and the discovery over all files are
\* complete before the first source file is written (files are written in the
\* rewriting phase only, which starts with both complete), and the snapshots are
\* not modified once they are built
C18_PhaseOrdering ==
    /\ [](AnyWrite => pc \in {"inject", "done"})
    /\ [](pc \in {"inject", "done"} => Built)
    /\ [][ (pc \in {"prepassed", "scanned", "inject"}) => snap' = snap ]_vars

\* the first file of a tree has been written and the second is still to be
\* rewritten
C18_Witness ==
    /\ pc = "inject"
    /\ Len(files) = 2
    /\ writes[1] > 0
    /\ fi = 2 /\ ti >= 1

\* C19: the line a successful rewrite renames is a declaration the target's
\* record was discovered from: the target's name, modifiers, parameter list and
\* return type, in the target's enclosing type
C19_RenamesOwnDeclaration == Wrapped => RenamedAt \in TargetDecls

\* line j of a text stands in the body of a function declared above it
InFunctionBody(tx, j) ==
    \E i \in 1..(j - 1) :
        /\ tx[i].k = "func"
        /\ tx[i].opens > tx[i].closes
        /\ MatchingClose(tx, i) >= j

\* C20: discovery emits no record for a function declared in the body of another
\* function, whatever braces its header line carries
C20_DirectMembersOnly ==
    pc \in {"scanned", "inject", "done"} =>
        \A i \in 1..Len(funcs) : \A j \in DeclsOf(FoundText(funcs[i]), funcs[i]) :
            ~InFunctionBody(FoundText(funcs[i]), j)

\* the state of the line loop of discovery after line k of file f of the tree
\* (the attributes pending when the file starts are those the file before left)
RECURSIVE ScanStateAt(_, _, _)
ScanStateAt(fs, f, k) ==
    ScanLines([brace |-> 0, stack |-> <<>>,
               pending |-> IF f = 1 THEN <<>>
                           ELSE ScanStateAt(fs, f - 1, Len(fs[f - 1].text)).pending,
               results |-> <<>>],
              fs[f].text, 1, k, fs[f].rel, snap)

\* the places of the scan: file f of the readable files, line k of it
ScanPlaces ==
    UNION { { <<f, k>> : k \in 1..Len(Readable(files)[f].text) } :
            f \in 1..Len(Readable(files)) }

Disciplined(st) ==
    /\ \A i \in 1..Len(st.stack) : st.stack[i].depth < st.brace
    /\ \A i \in 1..(Len(st.stack) - 1) : st.stack[i].depth < st.stack[i + 1].depth

\* C21: after every scanned line of a file, every frame left on the type-scope
\* stack has a recorded depth strictly below the current brace depth, and the
\* recorded depths strictly increase from the bottom of the stack to its top
C21_StackDiscipline ==
    pc = "scanned" =>
        \A p \in ScanPlaces : Disciplined(ScanStateAt(Readable(files), p[1], p[2]))

\* a scan that held two frames after one line and dropped both by a later one,
\* with the brace depth below zero in between or after
C21_Witness ==
    /\ pc = "scanned"
    /\ \E p, q, r \in ScanPlaces :
          /\ p[1] = q[1] /\ p[2] < q[2] /\ r[1] = p[1]
          /\ Len(ScanStateAt(Readable(files), p[1], p[2]).stack) = 2
          /\ Len(ScanStateAt(Readable(files), q[1], q[2]).stack) = 0
          /\ ScanStateAt(Readable(files), r[1], r[2]).brace < 0

\* a type header with a global-actor attribute of its own, or with one on an
\* attribute line above it that only attribute lines and blank lines part from it
ActorMarked(tx, h) ==
    \/ HasActorAttr(tx[h])
    \/ \E j \in 1..(h - 1) :
          /\ tx[j].k = "attr" /\ HasActorAttr(tx[j])
          /\ \A i \in j..(h - 1) : tx[i].k \in {"attr", "blank"}

\* the instance methods of a class, struct or enum marked that way
MarkedMethod(tx, j) ==
    /\ Owner(tx, j) # 0
    /\ tx[Owner(tx, j)].tkind \in {"class", "struct", "enum"}
    /\ ActorMarked(tx, Owner(tx, j))

\* C22: a type whose header follows a global-actor attribute, on the header line
\* or on an attribute line above it with only attribute lines and blank lines in
\* between, is flagged global-actor in the records of its functions, and none of
\* its instance methods is renamed and wrapped
C22_PendingAttrsReachType ==
    /\ \A i \in 1..Len(funcs) :
          \A j \in DeclsOf(FoundText(funcs[i]), funcs[i]) :
              MarkedMethod(FoundText(funcs[i]), j) => funcs[i].is_parent_global_actor
    /\ Wrapped =>
          ~(MarkedMethod(last.before, RenamedAt) /\ ~IsStaticDecl(last.before[RenamedAt]))

\* C23: an eligible function declared at the top level of a file (no enclosing
\* type, no skip condition) is renamed, its wrapper is put at the end of the
\* file, and one route is registered for it
C23_TopLevelWrapped ==
    (last.seen /\ last.target.parent_type = "" /\ last.skip = "") =>
        /\ last.did
        /\ last.returned[Len(last.returned)].k = "close"
        /\ last.returned[Len(last.returned) - 1].k = "call"
        /\ last.returned[Len(last.returned) - 1].key = last.target.route_key
        /\ routes # <<>> /\ routes[Len(routes)].key = last.target.route_key

\* the line of the text before the attempt in front of which the wrapper went in
InsertedAt == CallAt + 2 - (Len(last.returned) - Len(last.before))

\* C24: the wrapper of a wrapped member goes in immediately before the closing
\* brace of the type declaration that encloses the implementation, where the
\* braces are those of the comment-stripped text: a brace in a comment moves
\* nothing
C24_InsertionPoint ==
    Wrapped =>
        LET view == ScanView(last.before)
            own  == Owner(view, RenamedAt)
        IN  /\ own # 0
            /\ InsertedAt = MatchingClose(view, own)

\* two records that are two overloads: they differ in the qualified enclosing type,
\* the name, the external labels, the parameter types or the return type
DistinctOverloads(r, s) ==
    \/ r.parent_qual # s.parent_qual
    \/ r.name # s.name
    \/ param_external_labels_list(r.params_src) # param_external_labels_list(s.params_src)
    \/ r.param_types # s.param_types
    \/ r.return_type # s.return_type

\* C25: the route key is unique per overload: two discovered records that differ
\* in enclosing type, name, labels, parameter types or return type have
\* different route keys
C25_RouteKeyPerOverload ==
    \A i, j \in 1..Len(funcs) :
        DistinctOverloads(funcs[i], funcs[j]) => funcs[i].route_key # funcs[j].route_key

\* ---------------------------------------------------------------- the built program

\* The namespace build_perfile_runtime writes (lines 693-730) is Swift source: its
\* statics are plain stored properties and nothing in it synchronises, so threads
\* that call the accessors interleave statement by statement. The steps below are
\* the statements of call/callVoid, ensure and install in that order.

\* the registrations install() runs, in order, and the keys the wrappers forward
InstallBody(tx) == SelectSeq(tx, LAMBDA l : l.k = "reg")
ForwardedKeys(tx) == { tx[i].key : i \in { j \in 1..Len(tx) : tx[j].k = "call" } }

Running == pc = "done" /\ rt.missing = {}

\* a wrapper enters call or callVoid with its route key (lines 712 and 719)
CallEnter(t) ==
    /\ Running /\ rt.at[t] = "idle" /\ rt.calls < MaxCalls
    /\ \E key \in ForwardedKeys(files[1].text) :
          rt' = [rt EXCEPT !.at[t] = "ensure", !.key[t] = key, !.calls = @ + 1]
    /\ UNCHANGED <<pipeline, content, scan_text, strip_pc>>

\* ensure(): the test `if !didInstall` (line 704)
EnsureTest(t) ==
    /\ Running /\ rt.at[t] = "ensure"
    /\ rt' = [rt EXCEPT !.at[t] = IF rt.didInstall THEN "lookup" ELSE "flag"]
    /\ UNCHANGED <<pipeline, content, scan_text, strip_pc>>

\* ensure(): `didInstall = true`, set before install() is called (line 704)
EnsureSet(t) ==
    /\ Running /\ rt.at[t] = "flag"
    /\ rt' = [rt EXCEPT !.didInstall = TRUE, !.at[t] = "install", !.reg[t] = 1]
    /\ UNCHANGED <<pipeline, content, scan_text, strip_pc>>

\* install(): one registration statement, or the return after the last (lines 702-703)
InstallStep(t) ==
    /\ Running /\ rt.at[t] = "install"
    /\ LET body == InstallBody(files[1].text)
       IN  IF rt.reg[t] > Len(body)
           THEN rt' = [rt EXCEPT !.at[t] = "lookup", !.installs = @ + 1]
           ELSE rt' = [rt EXCEPT
                        !.routes = register(@, body[rt.reg[t]].key, body[rt.reg[t]].name),
                        !.reg[t] = @ + 1]
    /\ UNCHANGED <<pipeline, content, scan_text, strip_pc>>

\* `guard let fn = routes[key] else { preconditionFailure(...) }` (lines 714, 721)
Lookup(t) ==
    /\ Running /\ rt.at[t] = "lookup"
    /\ rt' = [rt EXCEPT !.at[t] = "idle",
                        !.missing = IF HasRoute(rt.routes, rt.key[t]) THEN @
                                    ELSE @ \cup {rt.key[t]}]
    /\ UNCHANGED <<pipeline, content, scan_text, strip_pc>>

\* the program is built from the tree one run of the pipeline leaves
NextRuntime ==
    \/ Prepass
    \/ Discover
    \/ Partition
    \/ InjectOpen
    \/ InjectTarget
    \/ InjectClose
    \/ Finish
    \/ \E t \in Threads : CallEnter(t)
    \/ \E t \in Threads : EnsureTest(t)
    \/ \E t \in Threads : EnsureSet(t)
    \/ \E t \in Threads : InstallStep(t)
    \/ \E t \in Threads : Lookup(t)

SpecRuntime == InitRuntime /\ [][NextRuntime]_vars

\* C26: whatever the interleaving of the threads that call the accessors, a route
\* lookup happens only after the installer body has run to completion exactly
\* once, and no key the installer registers is reported missing
C26_LazyInstallOnce ==
    /\ \A t \in Threads : rt.at[t] = "lookup" => rt.installs = 1
    /\ \A i \in 1..Len(InstallBody(files[1].text)) :
          InstallBody(files[1].text)[i].key \notin rt.missing

\* the protocols the texts of a tree declare, and the functions a protocol of that
\* name requires: the function declarations directly inside its braces
DeclaredProtocols(fs) ==
    UNION { { ScanView(fs[f].text)[i].name : i \in ProtocolLines(ScanView(fs[f].text)) } :
            f \in 1..Len(fs) }
RequirementsOf(fs, p) ==
    UNION { { func_key(FUNC_DECL_RE(fs[f].text[j]).name, FUNC_DECL_RE(fs[f].text[j]).params) :
              j \in { q \in 1..Len(fs[f].text) :
                        /\ fs[f].text[q].k = "func"
                        /\ Owner(ScanView(fs[f].text), q) # 0
                        /\ LET own == ScanView(fs[f].text)[Owner(ScanView(fs[f].text), q)]
                           IN  own.tkind = "protocol" /\ own.name = p } } :
            f \in 1..Len(fs) }

\* C27: a record's external-scope flag is set exactly when its frame adopts a
\* protocol the project does not declare (a declared protocol never sets it,
\* with or without function requirements), and the record is a requirement
\* implementation exactly when its key is among the requirements of an adopted
\* protocol of the project
C27_ExternalScopeFlag ==
    \A i \in 1..Len(funcs) :
        LET r        == funcs[i]
            adopted  == { r.parent_conforms[k] : k \in 1..Len(r.parent_conforms) }
            declared == DeclaredProtocols(Readable(prev_files))
        IN  /\ r.has_external_protocols_in_scope <=> adopted \ declared # {}
            /\ r.is_protocol_req_impl <=>
                  \E p \in adopted \cap declared :
                      func_key(r.name, r.params_src) \in RequirementsOf(Readable(prev_files), p)

\* ---------------------------------------------------------------- the comment stripper

\* the characters of the texts: comment delimiters, a newline and a letter, and
\* for literals the quote and the backslash
CommentChars == {"/", "*", "\n", "x"}
LiteralChars == {"\"", "\\", "/", "x"}

InitStripOver(chars) ==
    /\ InitPipeline({<<>>}, {Config(<<>>, FALSE)})
    /\ rt = NoRuntime
    /\ content \in SeqsUpTo(chars, MaxChars)
    /\ scan_text = content
    /\ strip_pc = "blocks"

\* the first re.sub of _strip_comments_preserve_layout (line 279)
StripBlocks ==
    /\ strip_pc = "blocks"
    /\ scan_text' = SubBlocks(scan_text, 1)
    /\ strip_pc' = "lines"
    /\ UNCHANGED <<pipeline, rt, content>>

\* the second re.sub (line 289) and the return
StripLines ==
    /\ strip_pc = "lines"
    /\ scan_text' = SubLines(scan_text, 1)
    /\ strip_pc' = "done"
    /\ UNCHANGED <<pipeline, rt, content>>

NextStrip == StripBlocks \/ StripLines

InitStrip == InitStripOver(CommentChars)
InitLiterals == InitStripOver(LiteralChars)
SpecStrip == InitStrip /\ [][NextStrip]_vars
SpecLiterals == InitLiterals /\ [][NextStrip]_vars

\* the closing quote of the literal that opens at i: the first quote behind i that
\* no backslash escapes, on the same line; 0 when the literal is not closed
RECURSIVE ClosingQuote(_, _)
ClosingQuote(s, j) ==
    IF j > Len(s) \/ s[j] = "\n" THEN 0
    ELSE IF s[j] = "\\" THEN ClosingQuote(s, j + 2)
    ELSE IF s[j] = "\"" THEN j
    ELSE ClosingQuote(s, j + 1)

\* the lexical class of every character of a Swift text from position i on:
\* "comment" (delimiters included; block comments nest), "quote", "literal"
\* (between the quotes of a closed literal) or "code"
RECURSIVE Lex(_, _, _, _)
Lex(s, i, mode, depth) ==
    LET two(a, b) == i + 1 <= Len(s) /\ s[i] = a /\ s[i + 1] = b
    IN  IF i > Len(s) THEN <<>>
        ELSE IF mode = "code"
        THEN IF two("/", "/") THEN <<"comment", "comment">> \o Lex(s, i + 2, "line", 0)
             ELSE IF two("/", "*") THEN <<"comment", "comment">> \o Lex(s, i + 2, "block", 1)
             ELSE IF s[i] = "\"" /\ ClosingQuote(s, i + 1) # 0
                  THEN <<"quote">> \o Lex(s, i + 1, "string", 0)
             ELSE <<"code">> \o Lex(s, i + 1, "code", 0)
        ELSE IF mode = "line"
        THEN IF s[i] = "\n" THEN <<"code">> \o Lex(s, i + 1, "code", 0)
             ELSE <<"comment">> \o Lex(s, i + 1, "line", 0)
        ELSE IF mode = "block"
        THEN IF two("*", "/")
             THEN <<"comment", "comment">>
                  \o Lex(s, i + 2, IF depth = 1 THEN "code" ELSE "block", depth - 1)
             ELSE IF two("/", "*")
                  THEN <<"comment", "comment">> \o Lex(s, i + 2, "block", depth + 1)
             ELSE <<"comment">> \o Lex(s, i + 1, "block", depth)
        ELSE IF s[i] = "\\" THEN <<"literal", "literal">> \o Lex(s, i + 2, "string", 0)
             ELSE IF s[i] = "\"" THEN <<"quote">> \o Lex(s, i + 1, "code", 0)
             ELSE <<"literal">> \o Lex(s, i + 1, "string", 0)
Classes(s) == Lex(s, 1, "code", 0)

\* C28: the view _strip_comments_preserve_layout returns has the length of the
\* text, a newline exactly where the text has one, every other character either
\* unchanged or a space, and only characters inside comments changed
C28_LayoutPreserved ==
    strip_pc = "done" =>
        /\ Len(scan_text) = Len(content)
        /\ \A i \in 1..Len(content) :
              /\ (scan_text[i] = "\n") <=> (content[i] = "\n")
              /\ scan_text[i] \in {content[i], " "}
              /\ scan_text[i] # content[i] => Classes(content)[i] = "comment"

\* C29: a comment marker inside a string literal starts no comment: the view
\* leaves every character between the quotes of a literal as it is, an escaped
\* quote not ending the literal
C29_LiteralsUntouched ==
    strip_pc = "done" =>
        \A i \in 1..Len(content) :
            Classes(content)[i] = "literal" => scan_text[i] = content[i]

\* the lines of a text that hold the required import
ImportsOf(tx) == { i \in 1..Len(tx) : tx[i].k = "import" }

\* C30: the text inject_per_file writes holds the required import exactly once,
\* above every statement of the file (the injected namespace included: only
\* blank, comment and interpreter lines stand before it), and an interpreter
\* line the file began with is still its first line
C30_ImportHoisted ==
    (ret.seen /\ ret.touched) =>
        /\ Cardinality(ImportsOf(ret.final)) = 1
        /\ \A i \in ImportsOf(ret.final) : \A j \in 1..(i - 1) :
              ret.final[j].k \in {"blank", "comment", "shebang"}
        /\ (prev_files[ret.file].text[1].k = "shebang") => (ret.final[1].k = "shebang")

====
